---- MODULE Spec2Model ----
(***************************************************************************)
(* Authentication and session-lifecycle core of the F Deals backend:       *)
(*   - utils/jwt.js                   refresh-session store and rotation   *)
(*   - controllers/UserAuthController OTP request / verify                 *)
(*   - controllers/AdminAuthController admin login throttle                *)
(* Every `await` of a handler is a point where other requests may run; the *)
(* code between two awaits runs to completion (Node.js event loop), so it  *)
(* is one atomic step of the model.                                        *)
(***************************************************************************)
EXTENDS Integers, Sequences, FiniteSets, Bags, TLC

\* ---------------------------------------------------------------- bounds
MaxSessions == 3      \* refresh-session records ever created
MaxCalls    == 2      \* rotateSession calls in flight at once
MaxLogins   == 2      \* admin login requests in flight at once
MaxLoginTime == 20    \* the clock stops here in the login specification
MaxReqs     == 2      \* otpRequest requests in flight at once
MaxVerifs   == 2      \* otpVerify requests in flight at once
MaxUsers    == 1      \* User rows ever created
MaxOtpTime  == 4      \* the clock stops here in the OTP specification
MaxCodes    == 2      \* codes ever generated by otpRequest (OTP specification)
MaxQuotaTime == 90    \* the clock stops here in the quota specification
MaxHttp     == 1      \* logout / deleteAccount requests in flight at once
MaxRefresh  == 1      \* refresh requests in flight at once

\* ------------------------------------------------------- program constants
\* Times are in minutes (the code's millisecond values divided by 60000).
MAX_FAILS == 5        \* registerFail: record.fails >= 5
LOCK_MIN  == 15       \* registerFail: 15 * 60 * 1000 ms
OTP_TTL_MIN == 3      \* OTP_TTL_MS = 180 * 1000
RESEND_COOLDOWN_MIN == 1   \* RESEND_COOLDOWN_MS = 60 * 1000
HOUR_MIN  == 60       \* 60 * 60 * 1000 ms
IP_CAP    == 10       \* st.count >= 10
MAX_ATTEMPTS == 5     \* rec.attempts >= 5
OTP_LEN   == 6

\* ------------------------------------------------------------ small helpers
Null == "null"        \* JavaScript null / undefined
Date == "date"        \* a value of `new Date()`: only its non-nullness is read

Calls == 1..MaxCalls
LCalls == 1..MaxLogins
Ips == {"ip1"}

\* Strings are sequences of one-character strings.
LowerChar(ch) ==
  CASE ch = "A" -> "a"
    [] ch = "B" -> "b"
    [] ch = "X" -> "x"
    [] OTHER -> ch

\* String.prototype.toLowerCase
ToLowerCase(str) == [i \in 1..Len(str) |-> LowerChar(str[i])]

\* String.prototype.trim: leading and trailing blanks removed.
RECURSIVE TrimLeft(_)
TrimLeft(str) ==
  IF str # <<>> /\ Head(str) = " " THEN TrimLeft(Tail(str)) ELSE str

RECURSIVE TrimRight(_)
TrimRight(str) ==
  IF str # <<>> /\ str[Len(str)] = " "
  THEN TrimRight(SubSeq(str, 1, Len(str) - 1)) ELSE str

Trim(str) == TrimRight(TrimLeft(str))

\* The `| 0` of JavaScript wraps to a signed 32-bit integer.  The running hash
\* is kept as two unsigned 16-bit halves <<hi, lo>> so that no intermediate
\* value leaves the 32-bit range: (h * 31 + c) mod 2^32 on the halves.
HashStep(h, c) ==
  LET lo == h[2] * 31 + c
      hi == h[1] * 31 + (lo \div 65536)
  IN  <<hi % 65536, lo % 65536>>

\* The signed 32-bit integer that the halves <<hi, lo>> denote.
ToInt32(h) ==
  IF h[1] >= 32768 THEN (h[1] - 65536) * 65536 + h[2] ELSE h[1] * 65536 + h[2]

\* Decimal digits of a natural number, most significant first ("0" for 0).
RECURSIVE NatDigits(_)
NatDigits(n) ==
  IF n < 10 THEN <<n>> ELSE NatDigits(n \div 10) \o <<n % 10>>

DigitChars == <<"0", "1", "2", "3", "4", "5", "6", "7", "8", "9">>

\* String(n) for an integer: an optional "-" and the decimal digits.
NumToString(n) ==
  LET d == NatDigits(IF n < 0 THEN -n ELSE n)
      str == [i \in 1..Len(d) |-> DigitChars[d[i] + 1]]
  IN  IF n < 0 THEN <<"-">> \o str ELSE str

\* String.prototype.padStart(n, ch)
RECURSIVE PadStart(_, _, _)
PadStart(str, n, ch) ==
  IF Len(str) >= n THEN str ELSE PadStart(<<ch>> \o str, n, ch)

\* hashToken(t): h = (h * 31 + charCode) | 0 over the characters, as a string.
RECURSIVE HashFrom(_, _, _)
HashFrom(h, t, i) ==
  IF i > Len(t) THEN h ELSE HashFrom(HashStep(h, t[i]), t, i + 1)

hashToken(t) == NumToString(ToInt32(HashFrom(<<0, 0>>, t, 1)))

\* jwt.sign(payload, secret): the compact serialisation of a token, as
\* character codes.  It is a fixed injective function of the payload (the sid
\* is unique); the signature bytes are opaque, so the model fixes short
\* representatives: those of sids 1 and 2 ("Aa", "BB") have the same rolling
\* hash, all others differ.
jwtSign(sid) ==
  IF sid = 1 THEN <<65, 97>>
  ELSE IF sid = 2 THEN <<66, 66>>
  ELSE <<67, 64 + sid>>

\* Principals that the callers of createSession bind sessions to: the admin
\* profile row (role admin) and user rows (role user).
AdminSub == <<"admin", 1>>
Principals == { [sub |-> AdminSub, role |-> "admin"],
                [sub |-> <<"user", 1>>, role |-> "user"] }

NoTok == [sub |-> <<"none", 0>>, role |-> "none", sid |-> 0, str |-> <<>>]

IdleRot == [pc |-> "idle", tok |-> NoTok, res |-> "none", newSid |-> 0,
            afterRot |-> FALSE, afterRevAll |-> FALSE]

VARIABLES
  sessions,     \* RefreshToken collection: sequence of records, sid = index
  tokens,       \* tokens[sid]: the signed refresh token issued for session sid
  rot,          \* rotateSession calls: position and locals of each
  okCount,      \* history: okCount[sid] = successful rotations of token sid
  revAllDead,   \* history: sids issued to a subject before a completed revokeAll
  now,          \* Date.now(), in minutes
  loginAttempts,\* AdminAuthController: Map ip -> { fails, lockedUntil }
  adminRow,     \* whether the Admin collection holds the profile row
  pwHashed,     \* whether ADMIN_PASSWORD is a bcrypt hash ($2a$ / $2b$)
  lcall,        \* admin login requests: position and locals of each
  consecFails,  \* history: consecutive Bad-credentials answers per ip
  fifthAt,      \* history: when the fifth such answer in a row was given (-1: never)
  otpStore,     \* global.__otpStore: Map email -> { code, exp, attempts }, as its entries
  otpCooldown,  \* global.__otpCooldown: Map email -> until (0: no entry)
  otpIpCount,   \* global.__otpIpCount: Map ip -> { hourStart, count }
  smtpCfg,      \* whether the SmtpConfig collection holds a record
  otpDef,       \* which of the two otpRequest definitions of the file serves the route
  ocall,        \* otpRequest requests in flight: the bag of their locals
  vcall,        \* otpVerify requests in flight: the bag of their locals
  lastAns,      \* history: the last answer given by otpRequest or otpVerify
  users,        \* User collection: rows [id, email]
  nextUid,      \* the next fresh User _id
  acc,          \* history: acc[email] = codes accepted since the record was stored
  csrfCookie,   \* req.cookies[CSRF_COOKIE] of the client's requests
  csrfHeader,   \* req.headers[CSRF_HEADER] of the client's requests
  rotEp,        \* rotEp[c]: the refresh endpoint that made rotateSession call c
  hcall,        \* logout / deleteAccount requests in flight: the bag of their locals
  lastHttp      \* history: the last answer of refresh, logout or deleteAccount

sessVars == <<sessions, tokens, rot, okCount, revAllDead>>
loginVars == <<loginAttempts, adminRow, pwHashed, lcall, consecFails, fifthAt>>
httpVars == <<csrfCookie, csrfHeader, rotEp, hcall, lastHttp>>
otpVars == <<otpStore, otpCooldown, otpIpCount, smtpCfg, otpDef, ocall, vcall,
             lastAns, users, nextUid, acc>>
vars == <<sessions, tokens, rot, okCount, revAllDead, now,
          loginAttempts, adminRow, pwHashed, lcall, consecFails, fifthAt,
          otpStore, otpCooldown, otpIpCount, smtpCfg, otpDef, ocall, vcall,
          lastAns, users, nextUid, acc,
          csrfCookie, csrfHeader, rotEp, hcall, lastHttp>>

\* ------------------------------------------------------------ jwt.js
\* signRefreshToken: payload {sub, role, sid}; `str` is the serialisation.
signRefreshToken(subjectId, role, sid) ==
  [sub |-> subjectId, role |-> role, sid |-> sid, str |-> jwtSign(sid)]

\* verifyRefreshToken: the payload of a token whose signature verifies.
verifyRefreshToken(tok) == [sub |-> tok.sub, role |-> tok.role, sid |-> tok.sid]

\* RefreshToken.create(...) of createSession, for the token just signed.
NewSessionRecord(tok) ==
  [sid |-> tok.sid, subjectId |-> tok.sub, role |-> tok.role,
   tokenHash |-> hashToken(tok.str), revokedAt |-> Null]

\* createSession body as an update of the collection: fresh sid (uuidv4),
\* signed token, record persisted active.
CreateSessionEffect(subjectId, role) ==
  LET sid == Len(sessions) + 1
      tok == signRefreshToken(subjectId, role, sid)
  IN  /\ sessions' = Append(sessions, NewSessionRecord(tok))
      /\ tokens' = Append(tokens, tok)
      /\ okCount' = Append(okCount, 0)

\* createSession called by a login flow (admin login, OTP verify).
CreateSession(p) ==
  /\ Len(sessions) < MaxSessions
  /\ CreateSessionEffect(p.sub, p.role)
  /\ UNCHANGED <<rot, revAllDead>>
  /\ UNCHANGED <<now, httpVars, loginVars, otpVars>>

\* Mutant: findOne({ sid }) without the revokedAt filter.
FindActiveBySid_NoFilter(sid) ==
  IF sid \in 1..Len(sessions) THEN sid ELSE 0

\* RefreshToken.findOne({ sid, revokedAt: null })
FindActiveBySid(sid) ==
  IF sid \in 1..Len(sessions) /\ sessions[sid].revokedAt = Null
  THEN sid ELSE 0

\* Locals of a rotateSession call that was given the token of session sid and
\* has issued its findOne.
RotLocals(sid) ==
  [pc |-> "find", tok |-> tokens[sid], res |-> "none", newSid |-> 0,
   afterRot |-> okCount[sid] > 0, afterRevAll |-> sid \in revAllDead]

\* rotateSession, entry: verifyRefreshToken(oldToken), then the findOne is
\* issued (first await).
RotBegin(c, sid) ==
  /\ rot[c].pc = "idle"
  /\ sid \in 1..Len(tokens)
  /\ rot' = [rot EXCEPT ![c] = RotLocals(sid)]
  /\ UNCHANGED <<sessions, tokens, okCount, revAllDead>>
  /\ UNCHANGED <<now, httpVars, loginVars, otpVars>>

\* Refresh tokens that verify under REFRESH_SECRET but were not issued for a
\* record of this collection: one whose sid has no record (sid 0), and for
\* each sid one with another serialisation than the token of that session.
ForeignTokens ==
  { [sub |-> <<"user", 1>>, role |-> "user", sid |-> sid, str |-> <<70 + sid>>] :
      sid \in 0..MaxSessions }

\* rotateSession, entry, with a foreign token.
RotBeginForeign(c, tok) ==
  /\ rot[c].pc = "idle"
  /\ tok \in ForeignTokens
  /\ rot' = [rot EXCEPT ![c] = [pc |-> "find", tok |-> tok, res |-> "none",
                                newSid |-> 0, afterRot |-> FALSE,
                                afterRevAll |-> FALSE]]
  /\ UNCHANGED <<sessions, tokens, okCount, revAllDead>>
  /\ UNCHANGED <<now, httpVars, loginVars, otpVars>>

\* Mutant: the stored hash is not compared.
FingerprintDiffers_Never(session, tok) == FALSE

\* session.tokenHash !== hashToken(oldToken)
FingerprintDiffers(session, tok) == session.tokenHash # hashToken(tok.str)

\* rotateSession, findOne resolves: 401 when no active record or when the
\* stored hash differs; otherwise session.revokedAt is set on the in-memory
\* document and session.save() is issued (second await).
RotFind(c) ==
  /\ rot[c].pc = "find"
  /\ LET payload == verifyRefreshToken(rot[c].tok)
         s == FindActiveBySid(payload.sid)
     IN  IF s = 0
         THEN rot' = [rot EXCEPT ![c].pc = "done", ![c].res = "401"]
         ELSE IF FingerprintDiffers(sessions[s], rot[c].tok)
         THEN rot' = [rot EXCEPT ![c].pc = "done", ![c].res = "401"]
         ELSE rot' = [rot EXCEPT ![c].pc = "save"]
  /\ UNCHANGED <<sessions, tokens, okCount, revAllDead>>
  /\ UNCHANGED <<now, httpVars, loginVars, otpVars>>

\* Mutant: the old record is saved without the revocation.
RotRevokeOld_Skip(ss, sid) == ss

\* session.revokedAt = new Date(); await session.save(): only revokedAt of
\* the document found is modified, so only that field is written.
RotRevokeOld(ss, sid) == [ss EXCEPT ![sid].revokedAt = Date]

\* rotateSession, session.save() resolves: revokedAt of the old record is
\* written; createSession signs the successor and issues RefreshToken.create.
RotSave(c) ==
  /\ rot[c].pc = "save"
  /\ sessions' = RotRevokeOld(sessions, rot[c].tok.sid)
  /\ rot' = [rot EXCEPT ![c].pc = "create"]
  /\ UNCHANGED <<tokens, okCount, revAllDead>>
  /\ UNCHANGED <<now, httpVars, loginVars, otpVars>>

\* rotateSession, RefreshToken.create resolves: the successor record exists
\* and { payload, newSid, newToken } is returned.
RotCreate(c) ==
  /\ rot[c].pc = "create"
  /\ Len(sessions) < MaxSessions
  /\ LET payload == verifyRefreshToken(rot[c].tok)
         sid == Len(sessions) + 1
         tok == signRefreshToken(payload.sub, payload.role, sid)
     IN  /\ sessions' = Append(sessions, NewSessionRecord(tok))
         /\ tokens' = Append(tokens, tok)
         /\ okCount' = Append([okCount EXCEPT ![payload.sid] = @ + 1], 0)
         /\ rot' = [rot EXCEPT ![c].pc = "done", ![c].res = "ok",
                               ![c].newSid = sid]
  /\ UNCHANGED revAllDead
  /\ UNCHANGED <<now, httpVars, loginVars, otpVars>>

\* rotateSession, RefreshToken.create rejects (the database refuses or loses
\* the write): createSession and rotateSession reject with that error, which
\* carries no status (500); nothing is inserted and nothing is undone.
RotCreateFails(c) ==
  /\ rot[c].pc = "create"
  /\ rot' = [rot EXCEPT ![c].pc = "done", ![c].res = "500"]
  /\ UNCHANGED <<sessions, tokens, okCount, revAllDead>>
  /\ UNCHANGED <<now, httpVars, loginVars, otpVars>>

\* The caller has consumed the result (or the error) of rotateSession.
RotReturn(c) ==
  /\ rot[c].pc = "done"
  /\ rotEp[c] = "none"
  /\ rot' = [rot EXCEPT ![c] = IdleRot]
  /\ UNCHANGED <<sessions, tokens, okCount, revAllDead>>
  /\ UNCHANGED <<now, httpVars, loginVars, otpVars>>

\* Mutant: the update flips revokedAt.
RevokeBySidEffect_Toggle(ss, sid) ==
  [i \in 1..Len(ss) |->
     IF ss[i].sid = sid
     THEN [ss[i] EXCEPT !.revokedAt = IF @ = Null THEN Date ELSE Null]
     ELSE ss[i]]

\* updateOne({ sid }, { $set: { revokedAt: new Date() } }) on collection ss
\* (sid is unique, so the one match is every match).
RevokeBySidEffect(ss, sid) ==
  [i \in 1..Len(ss) |->
     IF ss[i].sid = sid THEN [ss[i] EXCEPT !.revokedAt = Date] ELSE ss[i]]

\* revokeSessionBySid, for any sid: of an active session, of a revoked one,
\* of none.
RevokeSessionBySid(sid) ==
  /\ sessions' = RevokeBySidEffect(sessions, sid)
  /\ UNCHANGED <<tokens, rot, okCount, revAllDead>>
  /\ UNCHANGED <<now, httpVars, loginVars, otpVars>>

\* The filter of revokeAllSessionsForSubject's updateMany.
RevokeAllFilter(s, subjectId, role) ==
  s.subjectId = subjectId /\ s.role = role /\ s.revokedAt = Null

\* Mutant: updateOne instead of updateMany (only the first match is revoked).
RevokeAllEffect_One(subjectId, role) ==
  LET hits == { i \in 1..Len(sessions) : RevokeAllFilter(sessions[i], subjectId, role) }
  IN  sessions' = [i \in 1..Len(sessions) |->
                     IF i \in hits /\ \A j \in hits : i <= j
                     THEN [sessions[i] EXCEPT !.revokedAt = Date]
                     ELSE sessions[i]]

\* revokeAllSessionsForSubject: updateMany(filter, { $set: { revokedAt } })
RevokeAllEffect(subjectId, role) ==
  sessions' = [i \in 1..Len(sessions) |->
                 IF RevokeAllFilter(sessions[i], subjectId, role)
                 THEN [sessions[i] EXCEPT !.revokedAt = Date]
                 ELSE sessions[i]]

RevokeAllSessionsForSubject(p) ==
  /\ RevokeAllEffect(p.sub, p.role)
  /\ revAllDead' = revAllDead \cup
        { i \in 1..Len(tokens) : tokens[i].sub = p.sub /\ tokens[i].role = p.role }
  /\ revAllDead' # revAllDead
  /\ UNCHANGED <<tokens, rot, okCount>>
  /\ UNCHANGED <<now, httpVars, loginVars, otpVars>>

\* ------------------------------------------------- AdminAuthController.js
ADMIN_EMAIL    == <<"B", "@", "x", ".", "c">>     \* process.env.ADMIN_EMAIL
ADMIN_PASSWORD == "secret"                        \* process.env.ADMIN_PASSWORD

\* Request bodies tried: email (<<>> when absent) and password ("" when absent).
LoginEmails == { <<>>, <<"b", "@", "x", ".", "c">>, <<" ", "B", "@", "x", ".", "c">>,
                 <<"a", "@", "x", ".", "c">> }
LoginPasswords == { "", "secret", "wrong" }

NoAttempt == [fails |-> -1, lockedUntil |-> -1]   \* loginAttempts.get(ip) === undefined

\* Locals of a login request; `ip` is kept only while the throttle still reads
\* it. History: `good` tells that the body carried the configured email and
\* password.
IdleLogin == [pc |-> "idle", ip |-> "none", pwOk |-> FALSE, res |-> "none",
              good |-> FALSE]

\* Mutant: the throttle never reports a lock.
isIpLocked_Never(ip) == FALSE

\* isIpLocked(ip): the value returned.
isIpLocked(ip) ==
  LET record == loginAttempts[ip]
  IN  IF record = NoAttempt THEN FALSE
      ELSE now < record.lockedUntil

\* Mutant: an expired lock is not cleared.
isIpLockedMap_Keep(ip) == loginAttempts

\* isIpLocked(ip): the map it leaves (the record is deleted when not locked).
isIpLockedMap(ip) ==
  LET record == loginAttempts[ip]
  IN  IF record = NoAttempt THEN loginAttempts
      ELSE IF now < record.lockedUntil THEN loginAttempts
      ELSE [loginAttempts EXCEPT ![ip] = NoAttempt]

\* Mutant: the count is not reset when the lock is set.
registerFail_NoReset(m, ip) ==
  LET record == IF m[ip] = NoAttempt THEN [fails |-> 0, lockedUntil |-> 0] ELSE m[ip]
      fails == record.fails + 1
  IN  IF fails >= MAX_FAILS
      THEN [m EXCEPT ![ip] = [fails |-> fails, lockedUntil |-> now + LOCK_MIN]]
      ELSE [m EXCEPT ![ip] = [record EXCEPT !.fails = fails]]

\* registerFail(ip) on map m.
registerFail(m, ip) ==
  LET record == IF m[ip] = NoAttempt THEN [fails |-> 0, lockedUntil |-> 0] ELSE m[ip]
      fails == record.fails + 1
  IN  IF fails >= MAX_FAILS
      THEN [m EXCEPT ![ip] = [fails |-> 0, lockedUntil |-> now + LOCK_MIN]]
      ELSE [m EXCEPT ![ip] = [record EXCEPT !.fails = fails]]

\* Mutant: a success leaves the record of the address in the map.
registerSuccess_Keep(m, ip) == m

\* registerSuccess(ip) on map m.
registerSuccess(m, ip) == [m EXCEPT ![ip] = NoAttempt]

\* History: one more Bad-credentials answer in a row for ip (saturating).
BumpFails(ip) ==
  [consecFails EXCEPT ![ip] = IF @ < MAX_FAILS THEN @ + 1 ELSE @]

BumpFifth(ip) ==
  IF consecFails[ip] = MAX_FAILS - 1 THEN [fifthAt EXCEPT ![ip] = now] ELSE fifthAt

\* login, from the request to its first await or its response: input check,
\* throttle check, email comparison, then the password comparison (awaited
\* when the configured password is a bcrypt hash).
LoginStart(c, ip, rawEmail, password) ==
  /\ lcall[c].pc = "idle"
  /\ LET email == ToLowerCase(Trim(rawEmail))
         envEmail == ToLowerCase(Trim(ADMIN_EMAIL))
         m1 == isIpLockedMap(ip)
         good == email = envEmail /\ password = ADMIN_PASSWORD
     IN  IF email = <<>> \/ password = ""
         THEN /\ lcall' = [lcall EXCEPT ![c] = [pc |-> "done", ip |-> "none",
                                                pwOk |-> FALSE, res |-> "400",
                                                good |-> good]]
              /\ UNCHANGED <<loginAttempts, consecFails, fifthAt>>
         ELSE IF isIpLocked(ip)
         THEN /\ lcall' = [lcall EXCEPT ![c] = [pc |-> "done", ip |-> "none",
                                                pwOk |-> FALSE, res |-> "429",
                                                good |-> good]]
              /\ loginAttempts' = m1
              /\ UNCHANGED <<consecFails, fifthAt>>
         ELSE IF email # envEmail
         THEN /\ loginAttempts' = registerFail(m1, ip)
              /\ consecFails' = BumpFails(ip)
              /\ fifthAt' = BumpFifth(ip)
              /\ lcall' = [lcall EXCEPT ![c] = [pc |-> "done", ip |-> "none",
                                                pwOk |-> FALSE, res |-> "401",
                                                good |-> good]]
         ELSE IF pwHashed
         THEN /\ loginAttempts' = m1
              /\ lcall' = [lcall EXCEPT ![c] = [pc |-> "bcrypt", ip |-> ip,
                             pwOk |-> (password = ADMIN_PASSWORD), res |-> "none",
                                                good |-> good]]
              /\ UNCHANGED <<consecFails, fifthAt>>
         ELSE IF password # ADMIN_PASSWORD
         THEN /\ loginAttempts' = registerFail(m1, ip)
              /\ consecFails' = BumpFails(ip)
              /\ fifthAt' = BumpFifth(ip)
              /\ lcall' = [lcall EXCEPT ![c] = [pc |-> "done", ip |-> "none",
                                                pwOk |-> FALSE, res |-> "401",
                                                good |-> good]]
         ELSE /\ loginAttempts' = registerSuccess(m1, ip)
              /\ consecFails' = [consecFails EXCEPT ![ip] = 0]
              /\ UNCHANGED fifthAt
              /\ lcall' = [lcall EXCEPT ![c] = [pc |-> "findAdmin", ip |-> "none",
                                                pwOk |-> TRUE, res |-> "none",
                                                good |-> good]]
  /\ UNCHANGED <<sessVars, now, httpVars, adminRow, pwHashed, otpVars>>

\* login, bcrypt.compare resolves.
LoginCompared(c) ==
  /\ lcall[c].pc = "bcrypt"
  /\ LET ip == lcall[c].ip
     IN  IF ~lcall[c].pwOk
         THEN /\ loginAttempts' = registerFail(loginAttempts, ip)
              /\ consecFails' = BumpFails(ip)
              /\ fifthAt' = BumpFifth(ip)
              /\ lcall' = [lcall EXCEPT ![c].pc = "done", ![c].ip = "none",
                                    ![c].pwOk = FALSE, ![c].res = "401"]
         ELSE /\ loginAttempts' = registerSuccess(loginAttempts, ip)
              /\ consecFails' = [consecFails EXCEPT ![ip] = 0]
              /\ UNCHANGED fifthAt
              /\ lcall' = [lcall EXCEPT ![c].pc = "findAdmin", ![c].ip = "none"]
  /\ UNCHANGED <<sessVars, now, httpVars, adminRow, pwHashed, otpVars>>

\* login, Admin.findOne resolves: the row is created when absent.
LoginFindAdmin(c) ==
  /\ lcall[c].pc = "findAdmin"
  /\ lcall' = [lcall EXCEPT ![c].pc = IF adminRow THEN "session" ELSE "createAdmin"]
  /\ UNCHANGED <<sessVars, now, httpVars, loginAttempts, adminRow, pwHashed, consecFails,
                 fifthAt, otpVars>>

\* login, Admin.create resolves: the unique index on email rejects a second
\* row (the catch block answers 500).
LoginCreateAdmin(c) ==
  /\ lcall[c].pc = "createAdmin"
  /\ IF adminRow
     THEN /\ lcall' = [lcall EXCEPT ![c].pc = "done", ![c].res = "500"]
          /\ UNCHANGED adminRow
     ELSE /\ adminRow' = TRUE
          /\ lcall' = [lcall EXCEPT ![c].pc = "session"]
  /\ UNCHANGED <<sessVars, now, httpVars, loginAttempts, pwHashed, consecFails, fifthAt,
                 otpVars>>

\* login, createSession resolves: refresh cookie set, 200 with the tokens.
LoginSession(c) ==
  /\ lcall[c].pc = "session"
  /\ Len(sessions) < MaxSessions
  /\ CreateSessionEffect(AdminSub, "admin")
  /\ lcall' = [lcall EXCEPT ![c].pc = "done", ![c].res = "200"]
  /\ UNCHANGED <<rot, revAllDead, now, httpVars, loginAttempts, adminRow,
                 pwHashed, consecFails, fifthAt, otpVars>>

\* The response of a login request has been sent.
LoginReturn(c) ==
  /\ lcall[c].pc = "done"
  /\ lcall' = [lcall EXCEPT ![c] = IdleLogin]
  /\ UNCHANGED <<sessVars, now, httpVars, loginAttempts, adminRow, pwHashed, consecFails,
                 fifthAt, otpVars>>

\* Time passes (in steps of five minutes in the login specification).
LoginTickSteps == {5}

LoginTick(d) ==
  /\ now + d <= MaxLoginTime
  /\ now' = now + d
  /\ UNCHANGED <<sessVars, loginVars, otpVars, httpVars>>

\* -------------------------------------------------- UserAuthController.js
\* Request bodies tried for `email`.
RawEmails == { <<"a", "@", "x", ".", "c">>,
               <<"A", "@", "x", ".", "c">>,
               <<" ", "a", "@", "x", ".", "c", " ">>,
               <<"a", "x", ".", "c">> }

\* Request bodies tried for the `email` of otpVerify.
VerifyEmails == { <<" ", "A", "@", "x", ".", "c", " ">>,
                  <<"a", "x", ".", "c">> }

\* normalizeEmail: String(email || "").trim().toLowerCase()
normalizeEmail(email) == ToLowerCase(Trim(email))

\* validator.isEmail, for the strings above: no blank, exactly one "@" after a
\* non-empty local part, and a domain with an inner ".".
isEmail(str) ==
  LET ats == { i \in 1..Len(str) : str[i] = "@" }
  IN  /\ \A i \in 1..Len(str) : str[i] # " "
      /\ Cardinality(ats) = 1
      /\ \A i \in ats : /\ i > 1
                        /\ \E j \in (i + 2)..(Len(str) - 1) : str[j] = "."

\* Every key a Map of the controller can be given.
OtpKeys == RawEmails \cup { normalizeEmail(r) : r \in RawEmails }

\* Math.floor(Math.random() * 10 ** OTP_LEN): the draws tried.
OtpDraws == { 7, 123456 }

\* randomOtp, for the number drawn.
randomOtp(n) == PadStart(NumToString(n), OTP_LEN, "0")

\* Mutant: every code passes the format test.
IsSixDigits_Any(code) == TRUE

\* /^\d{6}$/.test(code)
IsSixDigits(code) ==
  /\ Len(code) = 6
  /\ \A i \in 1..Len(code) : \E d \in 1..10 : code[i] = DigitChars[d]

\* Request bodies tried for `otp`.
VerifyCodes == { randomOtp(n) : n \in OtpDraws } \cup { <<"1", "2">> }

NoOtp == [key |-> <<>>, code |-> <<>>, exp |-> -1, attempts |-> -1]
NoIp == [hourStart |-> -1, count |-> 0]       \* __otpIpCount.get(ip) === undefined

\* Map.prototype.get / set / delete on the entries of __otpStore.
MapGet(store, k) ==
  IF \E e \in store : e.key = k THEN CHOOSE e \in store : e.key = k ELSE NoOtp

MapSet(store, k, code, exp, attempts) ==
  { e \in store : e.key # k } \cup
  { [key |-> k, code |-> code, exp |-> exp, attempts |-> attempts] }

MapDelete_Noop(store, k) == store

MapDelete(store, k) == { e \in store : e.key # k }

\* Locals of an otpRequest in flight; `at` is the `now` read before the rate
\* limits (0 until it is read), `code` the code drawn for the mail (<<>> until
\* it is drawn).
ReqLocals(pc, email, ip, at, code) ==
  [pc |-> pc, email |-> email, ip |-> ip, at |-> at, code |-> code]

\* Locals of an otpVerify in flight (after its code was accepted).
VerLocals(pc, email, uid) == [pc |-> pc, email |-> email, uid |-> uid]

\* The requests in flight are a bag of locals; one of them takes a step.
Step(calls, old, new) == (calls (-) SetToBag({old})) (+) SetToBag({new})

Leave(calls, old) == calls (-) SetToBag({old})

\* An answer of otpRequest or otpVerify (history): `res` names the status and
\* the message ("410" is 410 "OTP expired/used", "400input" is 400 "Invalid
\* input", "400otp" is 400 "Invalid OTP", "accepted" the code was accepted),
\* with what the handler had
\* read: `cool` (otpRequest) the cooldown timestamp was in the future, `capped`
\* the hourly counter of the address was at its cap; (otpVerify)
\* `live` a record was found and now <= rec.exp, `spent` rec.attempts >= 5,
\* `match` the submitted code equalled rec.code, `len` the length of the
\* submitted code (0 for otpRequest).
Ans(op, email, res, cool, capped, live, spent, match, len) ==
  [op |-> op, email |-> email, res |-> res, cool |-> cool, capped |-> capped,
   live |-> live, spent |-> spent, match |-> match, len |-> len]

NoAns == Ans("none", <<>>, "none", FALSE, FALSE, FALSE, FALSE, FALSE, 0)

ReqAns(email, res, cool) ==
  Ans("otpRequest", email, res, cool, FALSE, FALSE, FALSE, FALSE, 0)

\* Mutant: a request over the quota is refused openly.
CapAns_Refuse(email) ==
  Ans("otpRequest", email, "429", FALSE, TRUE, FALSE, FALSE, FALSE, 0)

CapAns(email) ==
  Ans("otpRequest", email, "200", FALSE, TRUE, FALSE, FALSE, FALSE, 0)

VerAns(email, res, rec, code) ==
  Ans("otpVerify", email, res, FALSE, FALSE, rec # NoOtp /\ now <= rec.exp,
      rec.attempts >= MAX_ATTEMPTS, rec # NoOtp /\ code = rec.code, Len(code))

RequestKey_Raw(raw) == raw

\* The key under which otpRequest files the request's email.
RequestKey(raw) == normalizeEmail(raw)

\* otpRequest, entry: a malformed email is answered { ok: true } at once;
\* otherwise SmtpConfig.findOne is awaited.
ReqStart(raw, ip) ==
  /\ BagCardinality(ocall) < MaxReqs
  /\ LET email == RequestKey(raw)
     IN  IF ~isEmail(email)
         THEN /\ lastAns' = ReqAns(email, "200", FALSE)
              /\ UNCHANGED ocall
         ELSE /\ ocall' = ocall (+) SetToBag({ReqLocals("cfg", email, ip, 0, <<>>)})
              /\ UNCHANGED lastAns
  /\ UNCHANGED <<sessVars, now, httpVars, loginVars, otpStore, otpCooldown, otpIpCount,
                 smtpCfg, otpDef, vcall, users, nextUid, acc>>

CooldownActive_Never(until, t) == FALSE

\* The per-email cooldown test: until > now.
CooldownActive(until, t) == until > t

\* Mutant: the window restarts at every request.
IpWindow_Always(ip, t) == [hourStart |-> t, count |-> 0]

\* The per-ip hourly counter after the window reset, before the increment.
IpWindow(ip, t) ==
  LET st == IF otpIpCount[ip] = NoIp THEN [hourStart |-> t, count |-> 0]
            ELSE otpIpCount[ip]
  IN  IF t - st.hourStart >= HOUR_MIN THEN [hourStart |-> t, count |-> 0] ELSE st

\* The request would pass the configuration, cooldown and cap tests and
\* store a code.
WouldStore(r) ==
  /\ smtpCfg
  /\ ~CooldownActive(otpCooldown[r.email], now)
  /\ IpWindow(r.ip, now).count < IP_CAP

\* otpRequest, the configuration lookup resolves: 422 without configuration;
\* then cooldown, hourly cap, counter increment, code generated and stored,
\* and the mail is handed to the transport (awaited).
ReqCfg(r, n) ==
  /\ BagIn(r, ocall) /\ r.pc = "cfg"
  /\ LET st == IpWindow(r.ip, now)
         cool == otpCooldown[r.email] > now
     IN  IF ~smtpCfg
         THEN /\ ocall' = Leave(ocall, r)
              /\ lastAns' = ReqAns(r.email, "422", FALSE)
              /\ UNCHANGED <<otpStore, otpIpCount, acc>>
         ELSE IF CooldownActive(otpCooldown[r.email], now)
         THEN /\ ocall' = Leave(ocall, r)
              /\ lastAns' = ReqAns(r.email, "200", cool)
              /\ UNCHANGED <<otpStore, otpIpCount, acc>>
         ELSE IF st.count >= IP_CAP
         THEN /\ ocall' = Leave(ocall, r)
              /\ lastAns' = CapAns(r.email)
              /\ UNCHANGED <<otpStore, otpIpCount, acc>>
         ELSE /\ otpIpCount' = [otpIpCount EXCEPT ![r.ip] = [st EXCEPT !.count = @ + 1]]
              /\ otpStore' = MapSet(otpStore, r.email, randomOtp(n),
                                    now + OTP_TTL_MIN, 0)
              /\ acc' = [acc EXCEPT ![r.email] = 0]
              /\ ocall' = Step(ocall, r, ReqLocals("send", r.email, r.ip, now,
                                                randomOtp(n)))
              /\ UNCHANGED lastAns
  /\ UNCHANGED <<sessVars, now, httpVars, loginVars, otpCooldown, smtpCfg, otpDef, vcall,
                 users, nextUid>>

\* The catch block of otpRequest: the first definition of the file deletes
\* the stored code, the second only answers.
SendFailed(email) ==
  IF otpDef = 1 THEN MapDelete(otpStore, email) ELSE otpStore

\* otpRequest, sendMail settles: delivered -> cooldown set from the `now` read
\* earlier, { ok: true }; failed -> catch block, 503.
ReqSend(r, delivered) ==
  /\ BagIn(r, ocall) /\ r.pc = "send"
  /\ IF delivered
     THEN /\ otpCooldown' = [otpCooldown EXCEPT
                               ![r.email] = r.at + RESEND_COOLDOWN_MIN]
          /\ lastAns' = ReqAns(r.email, "200", FALSE)
          /\ UNCHANGED otpStore
     ELSE /\ otpStore' = SendFailed(r.email)
          /\ lastAns' = ReqAns(r.email, "503", FALSE)
          /\ UNCHANGED otpCooldown
  /\ ocall' = Leave(ocall, r)
  /\ UNCHANGED <<sessVars, now, httpVars, loginVars, otpIpCount, smtpCfg, otpDef, vcall,
                 users, nextUid, acc>>

AcceptStore_Keep(email) == otpStore

\* The store after a code was accepted: single-use, the record is deleted.
AcceptStore(email) == MapDelete(otpStore, email)

\* Mutant: the increment of a wrong code is lost.
MismatchStore_NoCount(email, rec) == otpStore

\* Mutant: a wrong code costs the record.
MismatchStore_Delete(email, rec) == MapDelete(otpStore, email)

\* The store after a wrong code: rec.attempts += 1 stays, the record too.
MismatchStore(email, rec) ==
  MapSet(otpStore, email, rec.code, rec.exp, rec.attempts + 1)

\* Mutant: a record never expires.
Expired_Never(rec, t) == FALSE

\* The expiry test: now > rec.exp.
Expired(rec, t) == t > rec.exp

BudgetSpent_Late(rec) == rec.attempts > MAX_ATTEMPTS

\* The attempt-budget test: rec.attempts >= 5.
BudgetSpent(rec) == rec.attempts >= MAX_ATTEMPTS

\* otpVerify, from the request to its first await or its response: input
\* check, record lookup, expiry, attempt budget, increment, comparison, and
\* the deletion of an accepted record; then User.findOne is awaited.
VerStart(raw, code) ==
  /\ BagCardinality(vcall) < MaxVerifs
  /\ LET email == normalizeEmail(raw)
         rec == MapGet(otpStore, email)
         ans(res, seen) == VerAns(email, res, seen, code)
     IN  IF ~isEmail(email) \/ ~IsSixDigits(code)
         THEN /\ lastAns' = ans("400input", NoOtp)
              /\ UNCHANGED <<otpStore, acc, vcall>>
         ELSE IF rec = NoOtp
         THEN /\ lastAns' = ans("410", rec)
              /\ UNCHANGED <<otpStore, acc, vcall>>
         ELSE IF Expired(rec, now)
         THEN /\ otpStore' = MapDelete(otpStore, email)
              /\ lastAns' = ans("410", rec)
              /\ UNCHANGED <<acc, vcall>>
         ELSE IF BudgetSpent(rec)
         THEN /\ otpStore' = MapDelete(otpStore, email)
              /\ lastAns' = ans("410", rec)
              /\ UNCHANGED <<acc, vcall>>
         ELSE IF code # rec.code
         THEN /\ otpStore' = MismatchStore(email, rec)
              /\ lastAns' = ans("400otp", rec)
              /\ UNCHANGED <<acc, vcall>>
         ELSE /\ otpStore' = AcceptStore(email)
              /\ acc' = [acc EXCEPT ![email] = IF @ < 2 THEN @ + 1 ELSE @]
              /\ lastAns' = ans("accepted", rec)
              /\ vcall' = vcall (+) SetToBag({VerLocals("findUser", email, 0)})
  /\ UNCHANGED <<sessVars, now, httpVars, loginVars, otpCooldown, otpIpCount, smtpCfg,
                 otpDef, ocall, users, nextUid>>

\* User.findOne({ email }): the row's id, 0 when there is none.
FindUser(email) ==
  IF \E u \in users : u.email = email
  THEN (CHOOSE u \in users : u.email = email).id ELSE 0

\* otpVerify, User.findOne resolves.
VerFindUser(v) ==
  /\ BagIn(v, vcall) /\ v.pc = "findUser"
  /\ LET uid == FindUser(v.email)
     IN  vcall' = Step(vcall, v,
                       VerLocals(IF uid = 0 THEN "createUser" ELSE "session",
                                 v.email, uid))
  /\ UNCHANGED <<sessVars, now, httpVars, loginVars, otpStore, otpCooldown, otpIpCount,
                 smtpCfg, otpDef, ocall, lastAns, users, nextUid, acc>>

\* otpVerify, User.create resolves: the unique index on email rejects a second
\* row for the email (the handler has no catch: the request ends in an error).
VerCreateUser(v) ==
  /\ BagIn(v, vcall) /\ v.pc = "createUser"
  /\ IF FindUser(v.email) # 0
     THEN /\ vcall' = Leave(vcall, v)
          /\ UNCHANGED <<users, nextUid>>
     ELSE /\ nextUid <= MaxUsers
          /\ users' = users \cup {[id |-> nextUid, email |-> v.email]}
          /\ nextUid' = nextUid + 1
          /\ vcall' = Step(vcall, v, VerLocals("session", v.email, nextUid))
  /\ UNCHANGED <<sessVars, now, httpVars, loginVars, otpStore, otpCooldown, otpIpCount,
                 smtpCfg, otpDef, ocall, lastAns, acc>>

\* otpVerify, createSession resolves: refresh cookie set, 200 with the tokens.
VerSession(v) ==
  /\ BagIn(v, vcall) /\ v.pc = "session"
  /\ Len(sessions) < MaxSessions
  /\ CreateSessionEffect(<<"user", v.uid>>, "user")
  /\ vcall' = Leave(vcall, v)
  /\ UNCHANGED <<rot, revAllDead, now, httpVars, loginVars, otpStore, otpCooldown, otpIpCount,
                 smtpCfg, otpDef, ocall, lastAns, users, nextUid, acc>>

\* Time passes.
OtpTickSteps == {1}

\* Time passes in the specification of the hourly quota, half an hour at a
\* time.
QuotaTickSteps == {30}

QuotaTick(d) ==
  /\ now + d <= MaxQuotaTime
  /\ now' = now + d
  /\ UNCHANGED <<sessVars, loginVars, otpVars, httpVars>>

OtpTick(d) ==
  /\ now + d <= MaxOtpTime
  /\ now' = now + d
  /\ UNCHANGED <<sessVars, loginVars, otpVars, httpVars>>

\* ----------------------------------- refresh / logout / deleteAccount
\* Values of the CSRF cookie (absent, empty, the token the server issued) and
\* of the CSRF header (absent, empty, that token, another one).
CsrfCookies == { Null, "", "t1" }
CsrfHeaders == { Null, "", "t1", "t2" }

\* JavaScript truthiness of a string or undefined.
Truthy(v) == v # Null /\ v # ""

\* Mutant: the two values are compared without the presence tests.
guardCsrf_NoPresence(cookie, header) ==
  IF cookie # header THEN "401" ELSE "ok"

\* Mutant: only the presence of both values is tested, not their equality.
guardCsrf_NoCompare(cookie, header) ==
  IF ~Truthy(cookie) \/ ~Truthy(header) THEN "401" ELSE "ok"

\* guardCsrf (admin handlers, thrown 401) and the same inline test of the
\* user handlers: !cookie || !header || cookie !== header.
guardCsrf(cookie, header) ==
  IF ~Truthy(cookie) \/ ~Truthy(header) \/ cookie # header THEN "401" ELSE "ok"

\* quickHash (admin logout) and hash (user logout, a number).
quickHash(str) == NumToString(ToInt32(HashFrom(<<0, 0>>, str, 1)))

hash(t) == ToInt32(HashFrom(<<0, 0>>, t, 1))

\* The `rt` cookie of a request: absent (0), a string that is no token (-1),
\* or the refresh token issued for a session.
RtCookies == {-1, 0} \cup (1..Len(tokens))

RtString(rt) == IF rt = -1 THEN <<88>> ELSE tokens[rt].str

\* signAccessToken(subjectId, role): the claims of the access token.
signAccessToken(subjectId, role) == [sub |-> subjectId, role |-> role]

NoAccess == signAccessToken(<<"none", 0>>, "none")

\* An answer of refresh, logout or deleteAccount: endpoint, operation, status
\* (the CSRF refusal, "401csrf", apart from the other 401s), what it did
\* to the rt cookie and the accessToken of its body (NoAccess: none).
HttpAns(ep, op, res, cookie) ==
  [ep |-> ep, op |-> op, res |-> res, cookie |-> cookie, access |-> NoAccess]

\* The role that a refresh endpoint signs into the access token: the admin
\* handler passes "admin", the user handler "user".
RefreshRole(ep, payload) == ep

\* The body of a successful refresh: accessToken signed for payload.sub.
RefreshOk(ep, payload) ==
  [HttpAns(ep, "refresh", "200", "set") EXCEPT
     !.access = signAccessToken(payload.sub, RefreshRole(ep, payload))]

NoHttp == HttpAns("none", "none", "none", "none")

\* Locals of a logout or deleteAccount in flight. History: `rt` is the cookie
\* the logout came with (as in RtCookies; 0 for deleteAccount).
HttpLocals(ep, op, pc, key, id, rt) ==
  [ep |-> ep, op |-> op, pc |-> pc, key |-> key, id |-> id, rt |-> rt, auth |-> 0]

\* Locals of a deleteAccount in flight: `id` is auth.sub until a user row is
\* resolved and user._id from then on. History: `auth` is req.auth.sub.
DelLocals(pc, key, id, auth) ==
  [HttpLocals("user", "delete", pc, key, id, 0) EXCEPT !.auth = auth]

\* refresh: CSRF, then the rt cookie, then rotateSession is called and awaited.
\* An exception is answered with err.status || 500, by the admin handler's
\* catch and, for the user handler, by the error handler of server.js
\* (express-async-errors); verifyRefreshToken's error carries no status.
Refresh(ep, c, rt) ==
  /\ rot[c].pc = "idle"
  /\ rt \in RtCookies
  /\ IF guardCsrf(csrfCookie, csrfHeader) = "401"
     THEN /\ lastHttp' = HttpAns(ep, "refresh", "401csrf", "none")
          /\ UNCHANGED <<rot, rotEp>>
     ELSE IF rt = 0
     THEN /\ lastHttp' = HttpAns(ep, "refresh", "401", "none")
          /\ UNCHANGED <<rot, rotEp>>
     ELSE IF rt = -1
     THEN /\ lastHttp' = HttpAns(ep, "refresh", "500", "none")
          /\ UNCHANGED <<rot, rotEp>>
     ELSE /\ rot' = [rot EXCEPT ![c] = RotLocals(rt)]
          /\ rotEp' = [rotEp EXCEPT ![c] = ep]
          /\ UNCHANGED lastHttp
  /\ UNCHANGED <<sessions, tokens, okCount, revAllDead, now, loginVars, otpVars,
                 csrfCookie, csrfHeader, hcall>>

\* refresh, rotateSession settles: setRefreshCookie and 200 with a new access
\* token; a rejection is answered with its status (401).
RefreshReturn(c) ==
  /\ rot[c].pc = "done"
  /\ rotEp[c] # "none"
  /\ lastHttp' = IF rot[c].res = "ok"
                 THEN RefreshOk(rotEp[c], verifyRefreshToken(rot[c].tok))
                 ELSE HttpAns(rotEp[c], "refresh", rot[c].res, "none")
  /\ rot' = [rot EXCEPT ![c] = IdleRot]
  /\ rotEp' = [rotEp EXCEPT ![c] = "none"]
  /\ UNCHANGED <<sessions, tokens, okCount, revAllDead, now, loginVars, otpVars,
                 csrfCookie, csrfHeader, hcall>>

\* logout, entry: CSRF; without an rt cookie the cookie is cleared and the
\* answer is { ok: true }; with one, admin awaits findOne({ tokenHash }) and
\* user awaits updateMany({ tokenHash, revokedAt: null }).
Logout(ep, rt) ==
  /\ BagCardinality(hcall) < MaxHttp
  /\ rt \in RtCookies
  /\ IF guardCsrf(csrfCookie, csrfHeader) = "401"
     THEN /\ lastHttp' = HttpAns(ep, "logout", "401csrf", "none")
          /\ UNCHANGED hcall
     ELSE IF rt = 0
     THEN /\ lastHttp' = HttpAns(ep, "logout", "200", "cleared")
          /\ UNCHANGED hcall
     ELSE /\ hcall' = hcall (+) SetToBag({
                 IF ep = "admin"
                 THEN HttpLocals(ep, "logout", "find", quickHash(RtString(rt)), 0, rt)
                 ELSE HttpLocals(ep, "logout", "update",
                                 NumToString(hash(RtString(rt))), 0, rt) })
          /\ UNCHANGED lastHttp
  /\ UNCHANGED <<sessVars, now, loginVars, otpVars, csrfCookie, csrfHeader, rotEp>>

\* admin logout, findOne({ tokenHash }) resolves with one of the records that
\* carry the hash (the query states no order), or with none; with a row,
\* updateMany({ sid: row.sid }) is awaited.
LogoutFind(h, row) ==
  /\ BagIn(h, hcall) /\ h.op = "logout" /\ h.pc = "find"
  /\ LET hits == { i \in 1..Len(sessions) : sessions[i].tokenHash = h.key }
     IN  IF hits = {}
         THEN /\ row = 0
              /\ hcall' = Leave(hcall, h)
              /\ lastHttp' = HttpAns(h.ep, "logout", "200", "cleared")
         ELSE /\ row \in hits
              /\ hcall' = Step(hcall, h, HttpLocals(h.ep, "logout", "update", <<>>,
                                                    sessions[row].sid, h.rt))
              /\ UNCHANGED lastHttp
  /\ UNCHANGED <<sessVars, now, loginVars, otpVars, csrfCookie, csrfHeader, rotEp>>

\* The filter of the logout's updateMany: by sid (admin), by tokenHash among
\* the active records (user).
LogoutFilter(h, s) ==
  IF h.ep = "admin" THEN s.sid = h.id
  ELSE s.tokenHash = h.key /\ s.revokedAt = Null

\* logout, the updateMany resolves: clearRefreshCookie, { ok: true }.
LogoutUpdate(h) ==
  /\ BagIn(h, hcall) /\ h.op = "logout" /\ h.pc = "update"
  /\ sessions' = [i \in 1..Len(sessions) |->
                    IF LogoutFilter(h, sessions[i])
                    THEN [sessions[i] EXCEPT !.revokedAt = Date]
                    ELSE sessions[i]]
  /\ hcall' = Leave(hcall, h)
  /\ lastHttp' = HttpAns(h.ep, "logout", "200", "cleared")
  /\ UNCHANGED <<tokens, rot, okCount, revAllDead, now, loginVars, otpVars,
                 csrfCookie, csrfHeader, rotEp>>

\* Users of the account endpoints: the rows present at the start, the
\* subjects of the access tokens (req.auth.sub) and the emails of the bodies.
UserRows == { [id |-> 1, email |-> <<"a", "@", "x", ".", "c">>],
              [id |-> 2, email |-> <<"b", "@", "x", ".", "c">>] }
AuthSubs == { 1, 2 }
DelEmails == { <<>>, <<"B", "@", "x", ".", "c">> }

\* deleteAccount (behind authUser), entry: CSRF; then User.findOne({ email })
\* is awaited when the body names an email, User.findById(auth.sub) otherwise.
DeleteAccount(sub, rawEmail) ==
  /\ BagCardinality(hcall) < MaxHttp
  /\ LET email == normalizeEmail(rawEmail)
     IN  IF guardCsrf(csrfCookie, csrfHeader) = "401"
         THEN /\ lastHttp' = HttpAns("user", "delete", "401csrf", "none")
              /\ UNCHANGED hcall
         ELSE /\ hcall' = hcall (+) SetToBag({
                     IF email # <<>>
                     THEN DelLocals("findEmail", email, sub, sub)
                     ELSE DelLocals("findId", <<>>, sub, sub) })
              /\ UNCHANGED lastHttp
  /\ UNCHANGED <<sessVars, now, loginVars, otpVars, csrfCookie, csrfHeader, rotEp>>

\* deleteAccount, User.findOne({ email }) resolves: with a row the revocation
\* is awaited, without one User.findById(auth.sub) is.
DelFindEmail(h) ==
  /\ BagIn(h, hcall) /\ h.op = "delete" /\ h.pc = "findEmail"
  /\ LET uid == FindUser(h.key)
     IN  hcall' = Step(hcall, h,
                       IF uid # 0
                       THEN DelLocals("revoke", <<>>, uid, h.auth)
                       ELSE DelLocals("findId", <<>>, h.id, h.auth))
  /\ UNCHANGED <<sessVars, now, loginVars, otpVars, csrfCookie, csrfHeader, rotEp,
                 lastHttp>>

\* deleteAccount, User.findById(auth.sub) resolves: 404 without a row.
DelFindId(h) ==
  /\ BagIn(h, hcall) /\ h.op = "delete" /\ h.pc = "findId"
  /\ IF \E u \in users : u.id = h.id
     THEN /\ hcall' = Step(hcall, h, DelLocals("revoke", <<>>, h.id, h.auth))
          /\ UNCHANGED lastHttp
     ELSE /\ hcall' = Leave(hcall, h)
          /\ lastHttp' = HttpAns("user", "delete", "404", "none")
  /\ UNCHANGED <<sessVars, now, loginVars, otpVars, csrfCookie, csrfHeader, rotEp>>

\* deleteAccount, revokeAllSessionsForSubject(user._id, "user") resolves;
\* User.deleteOne is awaited.
DelRevoke(h) ==
  /\ BagIn(h, hcall) /\ h.op = "delete" /\ h.pc = "revoke"
  /\ RevokeAllEffect(<<"user", h.id>>, "user")
  /\ revAllDead' = revAllDead \cup
        { i \in 1..Len(tokens) : tokens[i].sub = <<"user", h.id>>
                                   /\ tokens[i].role = "user" }
  /\ hcall' = Step(hcall, h, DelLocals("delete", <<>>, h.id, h.auth))
  /\ UNCHANGED <<tokens, rot, okCount, now, loginVars, otpVars, csrfCookie,
                 csrfHeader, rotEp, lastHttp>>

\* deleteAccount, User.deleteOne resolves: clearRefreshCookie, { ok: true }.
DelDelete(h) ==
  /\ BagIn(h, hcall) /\ h.op = "delete" /\ h.pc = "delete"
  /\ users' = { u \in users : u.id # h.id }
  /\ hcall' = Leave(hcall, h)
  /\ lastHttp' = HttpAns("user", "delete", "200", "cleared")
  /\ UNCHANGED <<sessVars, now, loginVars, otpStore, otpCooldown, otpIpCount, smtpCfg,
                 otpDef, ocall, vcall, lastAns, nextUid, acc, csrfCookie, csrfHeader,
                 rotEp>>

\* ------------------------------------------------------------ specification
SessInit ==
  /\ sessions = <<>>
  /\ tokens = <<>>
  /\ rot = [c \in Calls |-> IdleRot]
  /\ okCount = <<>>
  /\ revAllDead = {}

LoginInit ==
  /\ now = 0
  /\ loginAttempts = [ip \in Ips |-> NoAttempt]
  /\ adminRow = FALSE
  /\ pwHashed \in BOOLEAN
  /\ lcall = [c \in LCalls |-> IdleLogin]
  /\ consecFails = [ip \in Ips |-> 0]
  /\ fifthAt = [ip \in Ips |-> -1]

\* The throttle just after the fifth of five overlapping logins with a wrong
\* password (all of them waiting for bcrypt.compare when the first failed)
\* has been answered: registerFail has locked the address for LOCK_MIN.
LockedInit ==
  /\ now = 0
  /\ loginAttempts = [ip \in Ips |-> [fails |-> 0, lockedUntil |-> LOCK_MIN]]
  /\ adminRow = FALSE
  /\ pwHashed = TRUE
  /\ lcall = [c \in LCalls |-> IdleLogin]
  /\ consecFails = [ip \in Ips |-> MAX_FAILS]
  /\ fifthAt = [ip \in Ips |-> 0]

OtpInit ==
  /\ otpStore = {}
  /\ otpCooldown = [k \in OtpKeys |-> 0]
  /\ otpIpCount = [ip \in Ips |-> NoIp]
  /\ smtpCfg \in BOOLEAN
  /\ otpDef \in {1, 2}
  /\ ocall = EmptyBag
  /\ vcall = EmptyBag
  /\ lastAns = NoAns
  /\ acc = [k \in OtpKeys |-> 0]

\* No user has signed up yet.
UserInit ==
  /\ users = {}
  /\ nextUid = 1

\* No request in flight; the client's CSRF cookie and header are any values.
HttpInit ==
  /\ csrfCookie \in CsrfCookies
  /\ csrfHeader \in CsrfHeaders
  /\ rotEp = [c \in Calls |-> "none"]
  /\ hcall = EmptyBag
  /\ lastHttp = NoHttp

\* The client sends no CSRF cookie or header.
NoCsrf == csrfCookie = Null /\ csrfHeader = Null

Init == SessInit /\ LoginInit /\ OtpInit /\ UserInit /\ HttpInit

SessNext ==
  \/ \E p \in Principals : CreateSession(p)
  \/ \E c \in Calls, sid \in 1..MaxSessions : RotBegin(c, sid)
  \/ \E c \in Calls : RotFind(c)
  \/ \E c \in Calls : RotSave(c)
  \/ \E c \in Calls : RotCreate(c)
  \/ \E c \in Calls : RotReturn(c)
  \/ \E sid \in 1..MaxSessions : RevokeSessionBySid(sid)
  \/ \E p \in Principals : RevokeAllSessionsForSubject(p)

\* The session store alone; the login configuration is fixed.
InitSession == Init /\ pwHashed = FALSE /\ smtpCfg /\ otpDef = 1 /\ NoCsrf

\* The session store, with rotateSession also given tokens it did not issue.
RotateNext ==
  \/ SessNext
  \/ \E c \in Calls, tok \in ForeignTokens : RotBeginForeign(c, tok)

SpecRotate == InitSession /\ [][RotateNext]_vars

\* The session store, with a database that may reject the insert of
\* createSession inside rotateSession.
RotFailNext ==
  \/ SessNext
  \/ \E c \in Calls : RotCreateFails(c)

SpecRotFail == InitSession /\ [][RotFailNext]_vars

\* The admin login alone; the OTP configuration is fixed.
InitLogin == Init /\ smtpCfg /\ otpDef = 1 /\ NoCsrf

\* The OTP flows alone; the login configuration is fixed.
InitOtp == Init /\ pwHashed = FALSE /\ NoCsrf

SpecSession == InitSession /\ [][SessNext]_vars

LoginNext ==
  \/ \E c \in LCalls, ip \in Ips, e \in LoginEmails, p \in LoginPasswords :
        LoginStart(c, ip, e, p)
  \/ \E c \in LCalls : LoginCompared(c)
  \/ \E c \in LCalls : LoginFindAdmin(c)
  \/ \E c \in LCalls : LoginCreateAdmin(c)
  \/ \E c \in LCalls : LoginSession(c)
  \/ \E c \in LCalls : LoginReturn(c)
  \/ \E d \in LoginTickSteps : LoginTick(d)

SpecLogin == InitLogin /\ [][LoginNext]_vars

\* The admin login from a locked address.
InitLocked ==
  /\ SessInit /\ LockedInit /\ OtpInit /\ UserInit /\ HttpInit
  /\ smtpCfg /\ otpDef = 1 /\ NoCsrf

SpecLocked == InitLocked /\ [][LoginNext]_vars

\* The throttle functions called on their own, in any order: the calls that
\* logins overlapping in bcrypt.compare make on the map of an address.
ThrottleFail(ip) ==
  /\ loginAttempts' = registerFail(loginAttempts, ip)
  /\ UNCHANGED <<sessVars, now, httpVars, adminRow, pwHashed, lcall, consecFails,
                 fifthAt, otpVars>>

ThrottleCheck(ip) ==
  /\ loginAttempts' = isIpLockedMap(ip)
  /\ UNCHANGED <<sessVars, now, httpVars, adminRow, pwHashed, lcall, consecFails,
                 fifthAt, otpVars>>

ThrottleSuccess(ip) ==
  /\ loginAttempts' = registerSuccess(loginAttempts, ip)
  /\ UNCHANGED <<sessVars, now, httpVars, adminRow, pwHashed, lcall, consecFails,
                 fifthAt, otpVars>>

\* Time passes in steps of one and of five minutes between the calls.
ThrottleTickSteps == {1, 5}

ThrottleNext ==
  \/ \E ip \in Ips : ThrottleFail(ip)
  \/ \E ip \in Ips : ThrottleCheck(ip)
  \/ \E ip \in Ips : ThrottleSuccess(ip)
  \/ \E d \in ThrottleTickSteps : LoginTick(d)

\* No record yet; the configured password is a bcrypt hash.
InitThrottle == InitLogin /\ pwHashed = TRUE

SpecThrottle == InitThrottle /\ [][ThrottleNext]_vars

OtpNext ==
  \/ \E raw \in RawEmails, ip \in Ips : ReqStart(raw, ip)
  \/ \E r \in BagToSet(ocall), n \in OtpDraws :
        /\ WouldStore(r) => IpWindow(r.ip, now).count < MaxCodes
        /\ ReqCfg(r, n)
  \/ \E r \in BagToSet(ocall), delivered \in BOOLEAN : ReqSend(r, delivered)
  \/ \E raw \in VerifyEmails, code \in VerifyCodes : VerStart(raw, code)
  \/ \E v \in BagToSet(vcall) : VerFindUser(v)
  \/ \E v \in BagToSet(vcall) : VerCreateUser(v)
  \/ \E v \in BagToSet(vcall) : VerSession(v)
  \/ \E d \in OtpTickSteps : OtpTick(d)

SpecOtp == InitOtp /\ [][OtpNext]_vars

\* otpRequest alone, over more than an hour: the hourly counter of the address
\* runs up to its cap and restarts. Mail is configured or not, and the email
\* of the requests belongs to a user who signed up earlier or to nobody.
InitQuota ==
  /\ SessInit /\ LoginInit /\ OtpInit /\ HttpInit /\ NoCsrf
  /\ pwHashed = FALSE
  /\ users \in { {}, {[id |-> 1, email |-> <<"a", "@", "x", ".", "c">>]} }
  /\ nextUid = Cardinality(users) + 1

QuotaNext ==
  \/ \E raw \in RawEmails, ip \in Ips : ReqStart(raw, ip)
  \/ \E r \in BagToSet(ocall), n \in OtpDraws : ReqCfg(r, n)
  \/ \E r \in BagToSet(ocall), delivered \in BOOLEAN : ReqSend(r, delivered)
  \/ \E d \in QuotaTickSteps : QuotaTick(d)

SpecQuota == InitQuota /\ [][QuotaNext]_vars

\* The token endpoints: two users have signed up, the OTP and login
\* configuration is fixed.
InitHttp ==
  /\ SessInit /\ LoginInit /\ OtpInit /\ HttpInit
  /\ pwHashed = FALSE /\ smtpCfg /\ otpDef = 1
  /\ users = UserRows
  /\ nextUid = 3

HttpNext ==
  \/ \E p \in Principals : CreateSession(p)
  \/ \E ep \in {"admin", "user"}, c \in 1..MaxRefresh, rt \in -1..MaxSessions :
        Refresh(ep, c, rt)
  \/ \E c \in Calls : RotFind(c)
  \/ \E c \in Calls : RotSave(c)
  \/ \E c \in Calls : RotCreate(c)
  \/ \E c \in Calls : RefreshReturn(c)
  \/ \E ep \in {"admin", "user"}, rt \in -1..MaxSessions : Logout(ep, rt)
  \/ \E h \in BagToSet(hcall), row \in 0..MaxSessions : LogoutFind(h, row)
  \/ \E h \in BagToSet(hcall) : LogoutUpdate(h)
  \/ \E sub \in AuthSubs, e \in DelEmails : DeleteAccount(sub, e)
  \/ \E h \in BagToSet(hcall) : DelFindEmail(h)
  \/ \E h \in BagToSet(hcall) : DelFindId(h)
  \/ \E h \in BagToSet(hcall) : DelRevoke(h)
  \/ \E h \in BagToSet(hcall) : DelDelete(h)

SpecHttp == InitHttp /\ [][HttpNext]_vars

\* Every operation that writes the session collection: createSession, the
\* rotation of the user refresh endpoint, both logouts, the revoke-all of
\* deleteAccount (for the authenticated user) and revokeSessionBySid, which
\* no endpoint calls.
StoreNext ==
  \/ \E p \in Principals : CreateSession(p)
  \/ \E c \in 1..MaxRefresh, rt \in -1..MaxSessions : Refresh("user", c, rt)
  \/ \E c \in Calls : RotFind(c)
  \/ \E c \in Calls : RotSave(c)
  \/ \E c \in Calls : RotCreate(c)
  \/ \E c \in Calls : RefreshReturn(c)
  \/ \E ep \in {"admin", "user"}, rt \in -1..MaxSessions : Logout(ep, rt)
  \/ \E h \in BagToSet(hcall), row \in 0..MaxSessions : LogoutFind(h, row)
  \/ \E h \in BagToSet(hcall) : LogoutUpdate(h)
  \/ \E sub \in AuthSubs : DeleteAccount(sub, <<>>)
  \/ \E h \in BagToSet(hcall) : DelFindId(h)
  \/ \E h \in BagToSet(hcall) : DelRevoke(h)
  \/ \E h \in BagToSet(hcall) : DelDelete(h)
  \/ \E sid \in 1..MaxSessions : RevokeSessionBySid(sid)

\* The client's CSRF cookie and header agree.
InitStore == InitHttp /\ csrfCookie = "t1" /\ csrfHeader = "t1"

SpecStore == InitStore /\ [][StoreNext]_vars

\* ------------------------------------------------------------------ claims
\* C1: concurrent rotateSession calls that present the same refresh token
\* have exactly one winner: no token is ever rotated successfully twice.
C1_SingleWinner ==
  \A s \in 1..Len(okCount) : okCount[s] <= 1

\* C2: once a rotateSession with a token has succeeded, every rotateSession
\* begun afterwards with that same token fails with 401 (it never reaches the
\* revoke or the create); and a rotateSession fails with 401 only when the
\* session of its token is revoked, so the first rotation of a session that is
\* still active succeeds.
C2_ReuseFails ==
  \A c \in Calls :
    /\ rot[c].afterRot => rot[c].pc \in {"find", "done"} /\ rot[c].res # "ok"
    /\ rot[c].res = "401" => sessions[rot[c].tok.sid].revokedAt # Null

C2_Witness ==
  \E c \in Calls : rot[c].afterRot /\ rot[c].pc = "done" /\ rot[c].res = "401"

\* C7: after revokeAllSessionsForSubject(subject, role) has completed, every
\* rotateSession begun with a refresh token issued to that subject and role
\* before the call fails with 401.
C7_RevokeAllKills ==
  \A c \in Calls :
    rot[c].afterRevAll => rot[c].pc \in {"find", "done"} /\ rot[c].res # "ok"

C7_Witness ==
  \E c \in Calls :
    /\ rot[c].afterRevAll /\ rot[c].pc = "done" /\ rot[c].res = "401"
    /\ Cardinality({ i \in 1..Len(tokens) : tokens[i].sub = rot[c].tok.sub }) >= 2
    /\ \E s \in 1..Len(okCount) : okCount[s] > 0

\* C3: after 5 Bad-credentials answers in a row to one address, the address is
\* locked for the following 15 minutes.
C3_LockedAfterFive ==
  \A ip \in Ips :
    (consecFails[ip] >= MAX_FAILS /\ now < fifthAt[ip] + LOCK_MIN) => isIpLocked(ip)

\* C4: a live record is single-use. An otpVerify that finds a live record
\* with budget left and carries its code is accepted; once a code has been
\* accepted the record is gone for as long as no new otpRequest stores one,
\* and every well-formed otpVerify for the email answered in that time gets
\* 410 (Expired).
C4_SingleUse ==
  \A k \in OtpKeys :
    /\ acc[k] >= 1 => MapGet(otpStore, k) = NoOtp
    /\ (lastAns.op = "otpVerify" /\ lastAns.email = k) =>
         /\ (lastAns.live /\ ~lastAns.spent /\ lastAns.match)
              => lastAns.res = "accepted"
         /\ (acc[k] >= 1 /\ lastAns.res \notin {"accepted", "400input"})
              => lastAns.res = "410"

C4_Witness ==
  \E k \in OtpKeys :
    /\ acc[k] = 1 /\ vcall = EmptyBag /\ Len(sessions) >= 1
    /\ lastAns.op = "otpVerify" /\ lastAns.email = k /\ lastAns.res = "410"

\* C5: of the otpVerify calls for one email that carry the correct code, at
\* most one is accepted per stored record, however they overlap.
C5_AtMostOneAccepted ==
  \A k \in OtpKeys : acc[k] <= 1

C5_Witness ==
  \E v \in BagToSet(vcall) :
    /\ acc[v.email] = 1
    /\ lastAns.op = "otpVerify" /\ lastAns.email = v.email /\ lastAns.res = "410"

\* C6: an otpVerify that reads a record whose attempts have reached 5 answers
\* 410 whatever code it carries, and its step leaves no record for the email;
\* no step accepts a code against such a record, and attempts never pass 5.
C6_SpentNeverAccepted ==
  /\ [](/\ \A e \in otpStore : e.attempts <= MAX_ATTEMPTS
        /\ (lastAns.op = "otpVerify" /\ lastAns.spent) => lastAns.res = "410")
  /\ [][\A k \in OtpKeys :
          LET rec == MapGet(otpStore, k)
          IN  (rec # NoOtp /\ rec.attempts >= MAX_ATTEMPTS) =>
                /\ \A v \in BagToSet(vcall') :
                     (v.pc = "findUser" /\ v.email = k)
                       => CopiesIn(v, vcall') <= CopiesIn(v, vcall)
                /\ (lastAns' # lastAns /\ lastAns'.op = "otpVerify"
                      /\ lastAns'.email = k /\ lastAns'.res # "400input")
                     => lastAns'.res = "410" /\ MapGet(otpStore', k) = NoOtp]_vars

C6_Witness ==
  /\ lastAns.op = "otpVerify" /\ lastAns.res = "410"
  /\ lastAns.live /\ lastAns.spent /\ lastAns.match
  /\ MapGet(otpStore, lastAns.email) = NoOtp

\* C8: the OTP store never holds two records whose keys normalize (trim,
\* lower case) to the same address.
C8_OnePerEmail ==
  \A k \in OtpKeys :
    Cardinality({ e \in otpStore : normalizeEmail(e.key) = k }) <= 1

C8_Witness ==
  \E e \in otpStore :
    /\ BagCardinality(ocall) = 2
    /\ \A r \in BagToSet(ocall) : r.pc = "send" /\ r.email = e.key
    /\ BagCardinality(vcall) >= 1

\* C9: with mail configured, the step of an otpRequest that reads a cooldown
\* timestamp in the future answers { ok: true } and ends the request, and it
\* leaves the OTP store, the cooldown map and the hourly counters unchanged.
C9_CooldownNoChange ==
  [][\A r \in BagToSet(ocall) :
       (/\ r.pc = "cfg" /\ CopiesIn(r, ocall') < CopiesIn(r, ocall)
        /\ smtpCfg /\ otpCooldown[r.email] > now)
       => /\ ocall' = Leave(ocall, r)
          /\ lastAns' = ReqAns(r.email, "200", TRUE)
          /\ UNCHANGED <<otpStore, otpCooldown, otpIpCount>>]_vars

C9_Witness ==
  /\ lastAns.op = "otpRequest" /\ lastAns.cool /\ lastAns.res = "200"
  /\ otpCooldown[lastAns.email] > now
  /\ MapGet(otpStore, lastAns.email) # NoOtp

\* C10: the step of an otpRequest that answers 503 after a failed delivery
\* leaves no record for the email in the OTP store.
C10_FailedSendLeavesNoCode ==
  [][\A r \in BagToSet(ocall) :
       (/\ r.pc = "send" /\ CopiesIn(r, ocall') < CopiesIn(r, ocall)
        /\ lastAns'.op = "otpRequest" /\ lastAns'.res = "503")
       => MapGet(otpStore', r.email) = NoOtp]_vars

\* C11: the CSRF check passes if and only if the cookie value and the header
\* value are both present, both non-empty and equal. Every answer of refresh,
\* logout and deleteAccount is the CSRF refusal exactly when that is not the
\* case, and a handler is past its check only when it is the case.
C11_CsrfPassIffEqual ==
  LET match == /\ csrfCookie # Null /\ csrfCookie # ""
               /\ csrfHeader # Null /\ csrfHeader # ""
               /\ csrfCookie = csrfHeader
  IN  /\ (guardCsrf(csrfCookie, csrfHeader) = "ok") <=> match
      /\ lastHttp.op # "none" => ((lastHttp.res = "401csrf") <=> ~match)
      /\ (hcall # EmptyBag \/ \E c \in Calls : rotEp[c] # "none") => match

\* C11 witness: a request whose cookie and header are both present but
\* differ has been refused.
C11_Witness ==
  /\ lastHttp.res = "401csrf"
  /\ csrfCookie = "t1" /\ csrfHeader = "t2"

\* C12: while the CSRF values of the requests do not match, refresh, logout
\* and deleteAccount answer with the CSRF 401 only and change nothing: no
\* session is revoked, no session is rotated or created by a rotation, no
\* user row is deleted, no handler is past its check and the rt cookie is
\* neither set nor cleared.
C12_CsrfFailureChangesNothing ==
  LET match == /\ csrfCookie # Null /\ csrfCookie # ""
               /\ csrfHeader # Null /\ csrfHeader # ""
               /\ csrfCookie = csrfHeader
  IN  ~match =>
        /\ \A i \in 1..Len(sessions) : sessions[i].revokedAt = Null
        /\ \A i \in 1..Len(okCount) : okCount[i] = 0
        /\ \A c \in Calls : rot[c].pc = "idle" /\ rotEp[c] = "none"
        /\ users = UserRows
        /\ hcall = EmptyBag
        /\ lastHttp.res \in {"none", "401csrf"}
        /\ lastHttp.cookie = "none"

\* C12 witness: a logout without a CSRF cookie has been refused while
\* sessions exist.
C12_Witness ==
  /\ lastHttp.res = "401csrf" /\ lastHttp.op = "logout"
  /\ csrfCookie = Null
  /\ Len(sessions) > 0

\* C13: while an address is locked out, a login request from it is answered
\* at once, with 429 when its body is complete (also when it carries the
\* configured email and password) and with 400 otherwise: no password
\* comparison is awaited, the throttle record of the address, the sessions
\* and the tokens stay as they were; and as long as the lock that was set
\* with no login in flight lasts, no login is past the throttle and no
\* session exists.
C13_LockedRejectsAll ==
  /\ [](\A ip \in Ips :
          (loginAttempts[ip] # NoAttempt /\ now < loginAttempts[ip].lockedUntil) =>
             /\ \A c \in LCalls : lcall[c].pc \in {"idle", "done"}
             /\ \A c \in LCalls : lcall[c].pc = "done" => lcall[c].res \in {"400", "429"}
             /\ sessions = <<>> /\ tokens = <<>>)
  /\ [][\A ip \in Ips : \A c \in LCalls :
          ( /\ loginAttempts[ip] # NoAttempt /\ now < loginAttempts[ip].lockedUntil
            /\ lcall[c].pc = "idle" /\ lcall'[c].pc # "idle" ) =>
             /\ lcall'[c].pc = "done"
             /\ lcall'[c].res \in {"400", "429"}
             /\ lcall'[c].good => lcall'[c].res = "429"
             /\ ~lcall'[c].pwOk
             /\ loginAttempts' = loginAttempts
             /\ consecFails' = consecFails
             /\ sessions' = sessions /\ tokens' = tokens /\ adminRow' = adminRow
     ]_vars

\* C13 witness: a login with the configured email and password has been
\* answered 429 while the address is locked.
C13_Witness ==
  \E ip \in Ips, c \in LCalls :
    /\ loginAttempts[ip] # NoAttempt /\ now < loginAttempts[ip].lockedUntil
    /\ lcall[c].pc = "done" /\ lcall[c].res = "429" /\ lcall[c].good

\* C14: the step in which a login passes the password comparison (at once
\* with a plain configured password, when bcrypt.compare resolves with a
\* hashed one) removes the throttle record of its address: no failure count
\* and no lock time remain for it.
C14_SuccessRemovesRecord ==
  [][\A c \in LCalls :
       (lcall[c].pc \in {"idle", "bcrypt"} /\ lcall'[c].pc = "findAdmin") =>
          /\ lcall[c].pc = "bcrypt" => loginAttempts'[lcall[c].ip] = NoAttempt
          /\ \E ip \in Ips : /\ loginAttempts'[ip] = NoAttempt
                              /\ consecFails'[ip] = 0
                              /\ \A o \in Ips \ {ip} :
                                    loginAttempts'[o] = loginAttempts[o]
    ]_vars

\* C14 witness: with a hashed password, a login has failed (its failure was
\* recorded while the other login waited for bcrypt.compare), the other
\* login has then succeeded, and the address has no record.
C14_Witness ==
  \E ip \in Ips, c1, c2 \in LCalls :
    /\ pwHashed
    /\ lcall[c1].pc = "findAdmin"
    /\ lcall[c2].pc = "done" /\ lcall[c2].res = "401"
    /\ loginAttempts[ip] = NoAttempt

\* C15: the hourly counter of an address never exceeds 10. Every otpRequest
\* that stores a code changes the counter, and the counter changes only so:
\* one more in the running window, which requires a count below 10, or a
\* new window holding this one code, which requires that there was no window
\* or that an hour has passed since its start. A request that finds the
\* count at 10 inside the window is answered { ok: true } and leaves the
\* store, the cooldown map and the counter as they were. Requests overlap.
C15_HourlyCap ==
  /\ [](\A ip \in Ips : otpIpCount[ip] # NoIp => otpIpCount[ip].count \in 1..10)
  /\ [][\A ip \in Ips :
          LET old == otpIpCount[ip]
              new == otpIpCount'[ip]
              inWindow == old # NoIp /\ now - old.hourStart < 60
          IN  /\ new # old =>
                   /\ \E k \in OtpKeys : /\ MapGet(otpStore', k) # NoOtp
                                         /\ MapGet(otpStore', k).exp = now + OTP_TTL_MIN
                                         /\ MapGet(otpStore', k).attempts = 0
                   /\ IF inWindow
                      THEN old.count < 10 /\ new = [old EXCEPT !.count = @ + 1]
                      ELSE new = [hourStart |-> now, count |-> 1]
              /\ \A r \in BagToSet(ocall) :
                    (r.pc = "cfg" /\ r.ip = ip /\ CopiesIn(r, ocall') < CopiesIn(r, ocall)) =>
                       /\ BagCardinality(ocall') = BagCardinality(ocall) => new # old
                       /\ (inWindow /\ old.count >= 10 /\ otpCooldown[r.email] <= now) =>
                            /\ lastAns' = CapAns(r.email)
                            /\ ocall' = Leave(ocall, r)
                            /\ otpStore' = otpStore
                            /\ otpCooldown' = otpCooldown
                            /\ otpIpCount' = otpIpCount
     ]_vars

\* C15 witness: ten codes were stored in the window and one more request,
\* not held back by the cooldown, has been answered without a change, while
\* another request is in flight.
C15_Witness ==
  \E ip \in Ips :
    /\ otpIpCount[ip] # NoIp /\ otpIpCount[ip].count = 10
    /\ now - otpIpCount[ip].hourStart < 60
    /\ lastAns.capped /\ lastAns.res = "200"
    /\ ocall # EmptyBag

\* C16: a well-formed otpVerify is answered 410 "OTP expired/used" exactly
\* when there is no record for the email, or the record is past its expiry
\* time, or its attempt count is already 5; after such an answer the email
\* has no record (an expired or exhausted one was deleted), nothing else
\* changed, and a code is accepted only while its record has not expired.
C16_ExpiredUniform ==
  /\ []((lastAns.op = "otpVerify" /\ lastAns.res # "400input") =>
          /\ (lastAns.res = "410") <=> (~lastAns.live \/ lastAns.spent)
          /\ lastAns.res = "accepted" => lastAns.live)
  /\ [][(lastAns' # lastAns /\ lastAns'.op = "otpVerify" /\ lastAns'.res = "410") =>
          /\ MapGet(otpStore', lastAns'.email) = NoOtp
          /\ \A k \in OtpKeys \ {lastAns'.email} :
                MapGet(otpStore', k) = MapGet(otpStore, k)
          /\ vcall' = vcall /\ acc' = acc /\ sessions' = sessions
     ]_vars

\* C16 witness: the right code, submitted after the record's expiry time, has
\* been answered 410 and the record is gone.
C16_Witness ==
  /\ lastAns.op = "otpVerify" /\ lastAns.res = "410"
  /\ ~lastAns.live /\ lastAns.match /\ ~lastAns.spent
  /\ MapGet(otpStore, lastAns.email) = NoOtp

\* C17: a well-formed otpVerify that finds an unexpired record with fewer
\* than 5 attempts and carries another code than the record's is answered
\* 400 "Invalid OTP", and only such a request is; its step leaves the record
\* in the store with the same code and expiry time and one more attempt,
\* changes no other record and starts no sign-in; the right code submitted
\* while the record is unexpired and below 5 attempts is accepted.
C17_WrongCodeKeepsRecord ==
  /\ []((lastAns.op = "otpVerify" /\ lastAns.res # "400input") =>
          /\ (lastAns.res = "400otp") <=>
                (lastAns.live /\ ~lastAns.spent /\ ~lastAns.match)
          /\ (lastAns.live /\ ~lastAns.spent /\ lastAns.match) =>
                lastAns.res = "accepted")
  /\ [][\A k \in OtpKeys :
          LET old == MapGet(otpStore, k)
              new == MapGet(otpStore', k)
          IN  /\ ( \/ /\ lastAns' # lastAns /\ lastAns'.op = "otpVerify"
                      /\ lastAns'.res = "400otp" /\ lastAns'.email = k
                   \/ ocall' = ocall /\ new # old /\ new # NoOtp ) =>
                   /\ old # NoOtp /\ now <= old.exp /\ old.attempts < 5
                   /\ new = [old EXCEPT !.attempts = @ + 1]
                   /\ lastAns'.op = "otpVerify" /\ lastAns'.res = "400otp"
                   /\ lastAns'.email = k
                   /\ \A j \in OtpKeys \ {k} : MapGet(otpStore', j) = MapGet(otpStore, j)
                   /\ vcall' = vcall /\ acc' = acc
     ]_vars

\* C17 witness: two wrong codes have been answered 400 "Invalid OTP" and the
\* record is still in the store, unexpired, with two attempts counted.
C17_Witness ==
  /\ lastAns.op = "otpVerify" /\ lastAns.res = "400otp"
  /\ MapGet(otpStore, lastAns.email) # NoOtp
  /\ MapGet(otpStore, lastAns.email).attempts = 2
  /\ now <= MapGet(otpStore, lastAns.email).exp

\* C18: when the findOne of a rotateSession resolves and the collection holds
\* no record with the token's sid, or that record is revoked, or its stored
\* fingerprint is not the fingerprint of the presented token, the call fails
\* with 401 in that step: no record is revoked and none is created, by that
\* step or later by that call.
C18_RotateRejects ==
  /\ [](\A c \in Calls : rot[c].res = "401" => rot[c].pc = "done" /\ rot[c].newSid = 0)
  /\ [][\A c \in Calls :
          LET tok == rot[c].tok
              recs == { i \in 1..Len(sessions) : sessions[i].sid = tok.sid }
          IN  ( /\ rot[c].pc = "find" /\ rot'[c] # rot[c]
                /\ \/ recs = {}
                   \/ \E i \in recs : sessions[i].revokedAt # Null
                   \/ \E i \in recs : sessions[i].tokenHash # hashToken(tok.str) ) =>
                 /\ rot'[c].pc = "done" /\ rot'[c].res = "401"
                 /\ sessions' = sessions /\ tokens' = tokens
     ]_vars

\* C18 witness: one call was refused for a token whose sid has no record,
\* another for a token that carries the sid of an active session but not
\* its fingerprint, and that session is still active.
C18_Witness ==
  \E c1, c2 \in Calls :
    /\ rot[c1].pc = "done" /\ rot[c1].res = "401" /\ rot[c1].tok.sid = 0
    /\ rot[c2].pc = "done" /\ rot[c2].res = "401"
    /\ rot[c2].tok.sid \in 1..Len(sessions)
    /\ sessions[rot[c2].tok.sid].revokedAt = Null
    /\ sessions[rot[c2].tok.sid].tokenHash # hashToken(rot[c2].tok.str)
    /\ \E i \in 1..Len(sessions) : sessions[i].revokedAt # Null

\* C19: a logout that passes the CSRF check is answered 200 with the rt
\* cookie cleared, whatever the cookie held; and when the cookie held the
\* refresh token of a session, that session is revoked by the time the
\* logout is answered (so that a later rotateSession with the token fails).
C19_LogoutRevokes ==
  /\ []((lastHttp.op = "logout" /\ lastHttp.res # "401csrf") =>
          lastHttp.res = "200" /\ lastHttp.cookie = "cleared")
  /\ [][\A h \in BagToSet(hcall) :
          ( /\ h.op = "logout" /\ h.rt \in 1..Len(sessions)
            /\ CopiesIn(h, hcall') < CopiesIn(h, hcall)
            /\ BagCardinality(hcall') < BagCardinality(hcall) ) =>
             sessions'[h.rt].revokedAt # Null
     ]_vars

\* C20: in every state of the session store, for every session id (known or
\* not), revokeSessionBySid applied twice gives the collection that applying
\* it once gives; one application leaves the session with that id revoked
\* and otherwise as it was, leaves every other record as it was, and with
\* no record of that id it leaves the collection as it was.
C20_RevokeIdempotent ==
  \A sid \in 0..(MaxSessions + 1) :
    LET once == RevokeBySidEffect(sessions, sid)
        twice == RevokeBySidEffect(once, sid)
    IN  /\ twice = once
        /\ Len(once) = Len(sessions)
        /\ \A i \in 1..Len(sessions) :
              IF sessions[i].sid = sid
              THEN /\ once[i].revokedAt # Null
                   /\ [once[i] EXCEPT !.revokedAt = Null] =
                      [sessions[i] EXCEPT !.revokedAt = Null]
              ELSE once[i] = sessions[i]
        /\ (\A i \in 1..Len(sessions) : sessions[i].sid # sid) => once = sessions

\* C20 witness: revokeSessionBySid has revoked a session (no rotation and no
\* revokeAll touched it, no rotation is in flight) while another session is
\* active and a further session id is unknown.
C20_Witness ==
  /\ \A c \in Calls : rot[c].pc = "idle"
  /\ Len(sessions) < MaxSessions
  /\ \E i, j \in 1..Len(sessions) :
        /\ sessions[i].revokedAt # Null /\ okCount[i] = 0 /\ i \notin revAllDead
        /\ sessions[j].revokedAt = Null

\* C21: otpRequest answers { ok: true } (here "200") for a malformed email,
\* for an email in cooldown, for an address over its hourly quota and for a
\* code that was stored and delivered; its only other answers are 422, given
\* only when no mail configuration exists, and 503, given only when the
\* delivery of a stored code failed. The answers are these whether or not a
\* user with the email exists.
C21_UniformAccepted ==
  /\ [](lastAns.op = "otpRequest" =>
          /\ lastAns.res \in {"200", "422", "503"}
          /\ ~isEmail(lastAns.email) => lastAns.res = "200"
          /\ lastAns.cool => lastAns.res = "200"
          /\ lastAns.capped => lastAns.res = "200"
          /\ lastAns.res = "422" => ~smtpCfg /\ isEmail(lastAns.email)
          /\ lastAns.res = "503" =>
                smtpCfg /\ isEmail(lastAns.email) /\ ~lastAns.cool /\ ~lastAns.capped)
  /\ [][otpCooldown' # otpCooldown =>
          /\ lastAns'.op = "otpRequest" /\ lastAns'.res = "200"
          /\ ~lastAns'.cool /\ ~lastAns'.capped
     ]_vars

\* C21 witness: a request over the quota, for the email of an existing user,
\* has been answered { ok: true }.
C21_Witness ==
  /\ lastAns.op = "otpRequest" /\ lastAns.res = "200" /\ lastAns.capped
  /\ \E u \in users : u.email = lastAns.email

\* C22: otpVerify answers 400 "Invalid input" exactly when the normalised
\* email is not an email address or the code is not six digits long; such
\* an answer leaves the OTP store as it was (no attempt counted, no record
\* deleted) and starts no sign-in.
C22_InvalidInputNoEffect ==
  /\ [](lastAns.op = "otpVerify" =>
          ((lastAns.res = "400input") <=> (~isEmail(lastAns.email) \/ lastAns.len # 6)))
  /\ [][(lastAns' # lastAns /\ lastAns'.op = "otpVerify" /\ lastAns'.res = "400input") =>
          /\ otpStore' = otpStore
          /\ vcall' = vcall /\ acc' = acc /\ sessions' = sessions /\ users' = users
     ]_vars

\* C22 witness: a code of two digits for an email with a live record has been
\* answered 400 "Invalid input" and the record has no attempt counted.
C22_Witness ==
  /\ lastAns.op = "otpVerify" /\ lastAns.res = "400input"
  /\ isEmail(lastAns.email) /\ lastAns.len = 2
  /\ MapGet(otpStore, lastAns.email) # NoOtp
  /\ MapGet(otpStore, lastAns.email).attempts = 0
  /\ now <= MapGet(otpStore, lastAns.email).exp

\* C23: a successful rotateSession appends a record with a fresh sid, other
\* than the old one and than every sid in the collection, bound to the subject
\* and role of the rotated session and active, and the old record is revoked;
\* no step ever rewrites the sid, subject, role or fingerprint of a record.
C23_RotationFreshRecord ==
  [][ /\ Len(sessions') >= Len(sessions)
      /\ \A i \in 1..Len(sessions) :
            /\ sessions'[i].sid = sessions[i].sid
            /\ sessions'[i].subjectId = sessions[i].subjectId
            /\ sessions'[i].role = sessions[i].role
            /\ sessions'[i].tokenHash = sessions[i].tokenHash
      /\ \A c \in Calls :
            (rot[c].pc = "create" /\ rot'[c].pc = "done" /\ rot'[c].res = "ok") =>
              LET old == rot[c].tok.sid
                  new == rot'[c].newSid
              IN  /\ new # old
                  /\ \A i \in 1..Len(sessions) : sessions[i].sid # new
                  /\ Len(sessions') = Len(sessions) + 1
                  /\ sessions'[Len(sessions')].sid = new
                  /\ sessions'[Len(sessions')].subjectId = sessions[old].subjectId
                  /\ sessions'[Len(sessions')].role = sessions[old].role
                  /\ sessions'[Len(sessions')].revokedAt = Null
                  /\ sessions'[old].revokedAt # Null
    ]_vars

\* A rotation has returned: the old record is revoked and its successor, with
\* another sid and the same subject and role, is active.
C23_Witness ==
  \E c \in Calls :
    /\ rot[c].pc = "done" /\ rot[c].res = "ok"
    /\ rot[c].newSid \in 1..Len(sessions)
    /\ rot[c].newSid # rot[c].tok.sid
    /\ sessions[rot[c].tok.sid].revokedAt # Null
    /\ sessions[rot[c].newSid].revokedAt = Null
    /\ sessions[rot[c].newSid].subjectId = sessions[rot[c].tok.sid].subjectId
    /\ sessions[rot[c].newSid].role = sessions[rot[c].tok.sid].role

\* C24: each refresh answers with an access token that carries the role of
\* the session rotated (the role claim of the verified refresh token) and its
\* subject, so an access token with role admin is issued only for a session
\* that an admin login created.
C24_AccessRoleIsSessionRole ==
  [][ \A c \in Calls :
        (rot[c].pc = "done" /\ rot[c].res = "ok" /\ rotEp[c] # "none"
           /\ rotEp'[c] = "none") =>
          /\ lastHttp'.access.sub = rot[c].tok.sub
          /\ lastHttp'.access.role = rot[c].tok.role
    ]_vars

\* C25: failures accumulate: while an address has had k Bad-credentials
\* answers in a row (1 <= k <= 4) and no success since, the throttle holds a
\* record for it whose failure count is k; the lock check leaves the count of
\* an address that is not locked as it was.
C25_FailuresAccumulate ==
  \A ip \in Ips :
    consecFails[ip] \in 1..(MAX_FAILS - 1) =>
      /\ loginAttempts[ip] # NoAttempt
      /\ loginAttempts[ip].fails = consecFails[ip]

\* C26: a deleteAccount request of the authenticated user A deletes no
\* profile row but A's and revokes no session but A's, whatever email its
\* body carries.
C26_DeletesOnlySelf ==
  [][ \A h \in BagToSet(hcall) :
        (h.op = "delete" /\ CopiesIn(h, hcall') < CopiesIn(h, hcall)) =>
          /\ \A u \in users \ users' : u.id = h.auth
          /\ \A i \in 1..Len(sessions) :
                sessions'[i] # sessions[i] =>
                  sessions[i].subjectId = <<"user", h.auth>>
    ]_vars

\* C27: rotation is all-or-nothing: a rotateSession that settles after it has
\* saved the old record as revoked has a successor record in the collection
\* (or the old record is active again), and one that settles before the save
\* has changed nothing.
C27_AllOrNothing ==
  [][ \A c \in Calls :
        /\ (rot[c].pc = "create" /\ rot'[c].pc = "done") =>
              \/ /\ rot'[c].res = "ok"
                 /\ sessions'[rot[c].tok.sid].revokedAt # Null
                 /\ rot'[c].newSid \in 1..Len(sessions')
                 /\ sessions'[rot'[c].newSid].subjectId = rot[c].tok.sub
              \/ /\ rot'[c].res # "ok"
                 /\ sessions'[rot[c].tok.sid].revokedAt = Null
                 /\ Len(sessions') = Len(sessions)
        /\ (rot[c].pc = "find" /\ rot'[c].pc = "done") =>
              rot'[c].res # "ok" /\ sessions' = sessions
    ]_vars

\* C28: account deletion wins over a rotation in flight: once deleteAccount's
\* revoke-all for subject S has completed, no rotateSession of a session that
\* was issued to S before it inserts a successor, so that when both have
\* completed S has no active session and no token of S can be rotated.
C28_DeletionBeatsRotation ==
  [][ \A c \in Calls :
        (rot[c].pc = "create" /\ rot'[c].pc = "done" /\ rot'[c].res = "ok") =>
          \/ rot[c].tok.sid \notin revAllDead
          \/ sessions'[rot'[c].newSid].revokedAt # Null
    ]_vars

\* C30: a logout changes no session record other than the one whose refresh
\* token its rt cookie held (none when the cookie held no token of the
\* collection), on either endpoint and also when another record carries the
\* same fingerprint.
C30_LogoutRevokesNoOther ==
  [][ \A h \in BagToSet(hcall) :
        (h.op = "logout" /\ CopiesIn(h, hcall') < CopiesIn(h, hcall)) =>
          /\ Len(sessions') = Len(sessions)
          /\ \A i \in 1..Len(sessions) :
                i # h.rt => sessions'[i] = sessions[i]
    ]_vars

\* C29: when an otpRequest is answered after its mail was delivered, the store
\* holds a record for the email whose code is the one that mail carried or
\* the one of a later otpRequest for the email whose mail is still on its way,
\* whatever other otpRequest calls for the email did meanwhile; and while the
\* cooldown of an email runs (no code having been submitted), the store holds
\* a record for it.
C29_DeliveredCodeIsStored ==
  /\ [][ \A r \in BagToSet(ocall) :
           (/\ r.pc = "send" /\ CopiesIn(r, ocall') < CopiesIn(r, ocall)
            /\ otpStore' = otpStore /\ otpCooldown'[r.email] = r.at + RESEND_COOLDOWN_MIN
            /\ lastAns'.res = "200") =>
             /\ MapGet(otpStore', r.email) # NoOtp
             /\ \/ MapGet(otpStore', r.email).code = r.code
                \/ \E q \in BagToSet(ocall') :
                      /\ q.pc = "send" /\ q.email = r.email
                      /\ MapGet(otpStore', r.email).code = q.code
       ]_vars
  /\ [](\A e \in OtpKeys :
          CooldownActive(otpCooldown[e], now) => MapGet(otpStore, e) # NoOtp)

\* C31: however otpVerify calls for an email overlap, every comparison of a
\* submitted code with a stored record is made against a record with fewer
\* than 5 attempts and either destroys the record (the code was right) or
\* leaves it with exactly one more attempt; between comparisons the count of
\* a record never changes, so no increment is lost and a record is compared
\* with at most 5 codes before it is destroyed.
C31_AtMostFiveComparisons ==
  /\ [](\A e \in otpStore : e.attempts \in 0..MAX_ATTEMPTS)
  /\ [][\A k \in OtpKeys :
          LET old == MapGet(otpStore, k)
              new == MapGet(otpStore', k)
              compared == /\ ocall' = ocall
                          /\ lastAns'.op = "otpVerify" /\ lastAns'.email = k
                          /\ lastAns'.res \in {"400otp", "accepted"}
                          /\ (lastAns' # lastAns \/ otpStore' # otpStore)
          IN  /\ compared =>
                   /\ old # NoOtp /\ old.attempts < MAX_ATTEMPTS
                   /\ IF lastAns'.res = "accepted"
                      THEN new = NoOtp /\ lastAns'.match
                      ELSE new = [old EXCEPT !.attempts = @ + 1]
              /\ (~compared /\ ocall' = ocall /\ old # NoOtp /\ new # NoOtp) =>
                   new = old
     ]_vars

\* C31 witness: with the sign-in of an accepted code still in flight, a later
\* record of the email has been compared with five wrong codes.
C31_Witness ==
  /\ lastAns.op = "otpVerify" /\ lastAns.res = "400otp"
  /\ MapGet(otpStore, lastAns.email) # NoOtp
  /\ MapGet(otpStore, lastAns.email).attempts = MAX_ATTEMPTS
  /\ \E v \in BagToSet(vcall) : v.email = lastAns.email

\* C32: a session and the successor that a rotation creates for it are never
\* both active: while a rotateSession waits for the insert of the successor
\* the predecessor is already stored as revoked, the step that inserts the
\* successor finds and leaves it revoked, and it is still revoked when the
\* call returns.
C32_NeverBothActive ==
  /\ [](\A c \in Calls :
          /\ rot[c].pc = "create" => sessions[rot[c].tok.sid].revokedAt # Null
          /\ rot[c].res = "ok" =>
                /\ rot[c].newSid # rot[c].tok.sid
                /\ sessions[rot[c].tok.sid].revokedAt # Null)
  /\ [][\A c \in Calls :
          (rot[c].pc = "create" /\ Len(sessions') > Len(sessions)) =>
            /\ sessions[rot[c].tok.sid].revokedAt # Null
            /\ sessions'[rot[c].tok.sid].revokedAt # Null
     ]_vars

\* C32 witness: a rotation has returned an active successor of a revoked
\* predecessor while another rotateSession waits for its insert.
C32_Witness ==
  \E c, d \in Calls :
    /\ c # d /\ rot[d].pc = "create"
    /\ rot[c].pc = "done" /\ rot[c].res = "ok"
    /\ sessions[rot[c].newSid].revokedAt = Null
    /\ sessions[rot[c].tok.sid].revokedAt # Null

\* C33: registerFail raises the failure count of the address by exactly one
\* (from 0 when the address has no record) and leaves the lock time as it
\* was, except that a count that reaches 5 is stored as 0 with the lock time
\* now + 15 minutes; it changes no other address; so the stored count of
\* every address is always within 0..4.
C33_RegisterFailCounts ==
  \A ip \in Ips :
    LET m == loginAttempts
        before == IF m[ip] = NoAttempt THEN [fails |-> 0, lockedUntil |-> 0] ELSE m[ip]
        after == registerFail(m, ip)
    IN  /\ m[ip] # NoAttempt => m[ip].fails \in 0..(MAX_FAILS - 1)
        /\ after[ip] # NoAttempt /\ after[ip].fails \in 0..(MAX_FAILS - 1)
        /\ IF before.fails = MAX_FAILS - 1
           THEN after[ip] = [fails |-> 0, lockedUntil |-> now + LOCK_MIN]
           ELSE after[ip] = [fails |-> before.fails + 1,
                             lockedUntil |-> before.lockedUntil]
        /\ \A o \in Ips \ {ip} : after[o] = m[o]

\* C33 witness: a fifth failure has locked the address with the count back at
\* 0, and four more failures have been counted during the lock.
C33_Witness ==
  \E ip \in Ips :
    /\ loginAttempts[ip] # NoAttempt
    /\ loginAttempts[ip].fails = MAX_FAILS - 1
    /\ now < loginAttempts[ip].lockedUntil

\* C34: isIpLocked returns true exactly when the address has a record whose
\* lock time is strictly in the future, and then leaves the map as it was;
\* otherwise it returns false and leaves the address without a record. So
\* once the lock time has passed, the next login from the address finds it
\* clean: one that carries the configured email and password is not refused,
\* goes on to the password comparison with the record removed, and passes it.
C34_LockExpires ==
  /\ [](\A ip \in Ips :
          LET record == loginAttempts[ip]
              locked == record # NoAttempt /\ now < record.lockedUntil
          IN  /\ isIpLocked(ip) <=> locked
              /\ locked => isIpLockedMap(ip) = loginAttempts
              /\ ~locked => /\ isIpLockedMap(ip)[ip] = NoAttempt
                             /\ \A o \in Ips \ {ip} :
                                   isIpLockedMap(ip)[o] = loginAttempts[o])
  /\ [][\A c \in LCalls :
          /\ ( /\ lcall[c].pc = "idle" /\ lcall'[c].pc # "idle" /\ lcall'[c].good
               /\ \A ip \in Ips : ~isIpLocked(ip) ) =>
                /\ lcall'[c].pc \in {"bcrypt", "findAdmin"}
                /\ lcall'[c].pwOk
                /\ \E ip \in Ips : loginAttempts'[ip] = NoAttempt
          /\ (lcall[c].pc = "bcrypt" /\ lcall[c].good /\ lcall'[c] # lcall[c]) =>
                /\ lcall'[c].pc = "findAdmin"
                /\ loginAttempts'[lcall[c].ip] = NoAttempt
     ]_vars

\* C34 witness: the address was locked at time 0; the lock time has passed
\* and a login with the configured email and password has been answered 200,
\* the address being without a record.
C34_Witness ==
  \E ip \in Ips, c \in LCalls :
    /\ fifthAt[ip] = 0 /\ now >= LOCK_MIN
    /\ lcall[c].pc = "done" /\ lcall[c].res = "200" /\ lcall[c].good
    /\ loginAttempts[ip] = NoAttempt
    /\ Len(sessions) >= 1

\* C35: revocation is permanent: no step removes a record from the session
\* collection or gives it another sid, and no step sets the revokedAt of a
\* revoked record back to null; and the findOne of a rotateSession whose
\* token names a revoked session ends the call with 401. So a refresh token
\* that failed rotation because its session was revoked fails it ever after.
C35_RevocationPermanent ==
  /\ [][ /\ Len(sessions') >= Len(sessions)
         /\ \A i \in 1..Len(sessions) :
               /\ sessions'[i].sid = sessions[i].sid
               /\ sessions[i].revokedAt # Null => sessions'[i].revokedAt # Null
     ]_vars
  /\ [][ \A c \in Calls :
           ( /\ rot[c].pc = "find" /\ rot'[c] # rot[c]
             /\ rot[c].tok.sid \in 1..Len(sessions)
             /\ sessions[rot[c].tok.sid].revokedAt # Null ) =>
              /\ rot'[c].pc = "done" /\ rot'[c].res = "401"
              /\ sessions' = sessions
     ]_vars

\* C35 witness: the only session was revoked without being rotated or hit by
\* a revoke-all; a refresh has been answered 401 and a rotateSession with the
\* token has failed with 401 again.
C35_Witness ==
  \E c \in Calls :
    /\ Len(sessions) = 1 /\ sessions[1].revokedAt # Null
    /\ okCount[1] = 0 /\ revAllDead = {}
    /\ lastHttp.op = "refresh" /\ lastHttp.res = "401"
    /\ rot[c].pc = "done" /\ rot[c].res = "401" /\ rot[c].tok.sid = 1

====
